---- MODULE Spec2Model ----
(***************************************************************************)
(* Model of the BlindSpot System (BSS) request handlers: session login,    *)
(* the requireAuth / requireITAccount / requireRestaurant middleware, the  *)
(* tenant-scoped CRUD and sort routes, the order placement path with its   *)
(* compensating delete, the payment routes and the sidebar filter.         *)
(***************************************************************************)
EXTENDS Integers, FiniteSets, Sequences, TLC

VARIABLES users, sessions, inventory, salaries, deliveryApps, orders,
          payments, tickets, invoices, reqs, resp, formData,
          sockets, wsClients, conversations, sent,
          restaurants, bootstrapTokens, calls

vars == <<users, sessions, inventory, salaries, deliveryApps, orders,
          payments, tickets, invoices, reqs, resp, formData,
          sockets, wsClients, conversations, sent,
          restaurants, bootstrapTokens, calls>>

liveVars == <<sockets, wsClients, conversations>>

acctVars == <<restaurants, bootstrapTokens, calls>>

quietVars == <<formData, liveVars, acctVars>>

auxVars == <<quietVars, sent>>

dbVars == <<users, inventory, salaries, deliveryApps, orders, payments,
            tickets, invoices>>

serverVars == <<dbVars, sessions, reqs, liveVars, sent, acctVars>>

(***************************************************************************)
(* Bounds of the model                                                     *)
(***************************************************************************)
MaxQty == 2
MaxSort == 1
MaxReqs == 2

(***************************************************************************)
(* Identifiers                                                             *)
(***************************************************************************)
NULL == "null"
Tenants == {"T1", "T2"}
UserIds == {"u1", "u2", "u3", "u4", "u5", "u6"}
SessIds == {"s1", "s2"}
ItemIds == {"i1", "i2", "i3"}
SalaryIds == {"sal1", "sal2", "sal3", "sal4"}
RestaurantIds == Tenants \cup {"T3", "T4"}
TokenIds == {"tok1"}
CallIds == {"q1", "q2"}
AppIds == {"a1", "a2", "a3"}
ReqIds == 1..MaxReqs
OrderIds == {ToString(r) : r \in ReqIds} \cup {"0"}
PayIds == {"pay1", "pay2", "pay3"}
TicketIds == {"t1"}
InvoiceIds == {"inv1", "inv2", "inv3"}
Passwords == {"pw", "bad", ""}
Usernames == {"alice", "bob", "carol", "ivan", "nobody", ""}
Roles == {"admin", "employee"}
AccountTypes == {"client", "it"}
Actions == {"view", "add", "edit", "delete"}
Methods == {"GET", "POST", "PATCH", "DELETE"}
Features ==
    {"pos", "menu", "bills", "sales", "users", "orders", "kitchen", "recipes",
     "reports", "branches", "licenses", "settings", "customers", "dashboard",
     "inventory", "procurement", "deliveryApps", "workingHours"}
ITFeatureKeys == {"it-dashboard", "performance", "it-account-management"}
BusinessTypes == {"restaurant", "factory"}


(***************************************************************************)
(* Permission sets: a feature maps to a legacy boolean, to nothing, or to  *)
(* a granular {view, add, edit, delete} record.                            *)
(***************************************************************************)
Legacy(b) == [legacy |-> b, view |-> FALSE, add |-> FALSE, edit |-> FALSE, delete |-> FALSE]

Granular(v, a, e, d) == [legacy |-> "granular", view |-> v, add |-> a, edit |-> e, delete |-> d]

normalizePermission(p) ==
    IF p.legacy = "true" THEN Actions
    ELSE IF p.legacy = "granular" THEN {a \in Actions : p[a]}
    ELSE {}

ADMIN_PERMISSIONS == [f \in Features |-> Legacy("true")]

IT_PERMISSIONS == [f \in Features |-> Legacy("true")]

NoPermissions == [f \in Features |-> Legacy("absent")]

PermSets ==
    { ADMIN_PERMISSIONS,
      NoPermissions,
      [f \in Features |-> Legacy("false")],
      [f \in Features |-> Granular(TRUE, FALSE, FALSE, FALSE)] }

(***************************************************************************)
(* Accounts, sessions and responses                                        *)
(***************************************************************************)
EmailOf(name) == name \o "@bss.sa"

User(name, pw, rid, role, perms) ==
    [exists |-> TRUE, username |-> name, password |-> pw, restaurantId |-> rid,
     role |-> role, active |-> TRUE, permissions |-> perms, email |-> EmailOf(name),
     resetToken |-> FALSE]

NoUser ==
    [exists |-> FALSE, username |-> "", password |-> "", restaurantId |-> NULL,
     role |-> "-", active |-> FALSE, permissions |-> NoPermissions, email |-> "",
     resetToken |-> FALSE]

SeedUsers(p1, p2) ==
    [u \in UserIds |->
        CASE u = "u1" -> User("alice", "pw", "T1", "admin", p1)
          [] u = "u2" -> User("bob", "pw", "T1", "employee", p2)
          [] u = "u3" -> User("carol", "pw", "T2", "admin", ADMIN_PERMISSIONS)
          [] u = "u4" -> User("ivan", "pw", NULL, "admin", IT_PERMISSIONS)
          [] OTHER    -> NoUser]

NoSession ==
    [user |-> FALSE, id |-> "-", restaurantId |-> NULL, role |-> "-",
     permissions |-> NoPermissions, accountType |-> "-"]

SessionOf(uid, u, accountType) ==
    [user |-> TRUE, id |-> uid, restaurantId |-> u.restaurantId, role |-> u.role,
     permissions |-> u.permissions, accountType |-> accountType]

Response(route, s, status, error, returned, ran) ==
    [route |-> route, sess |-> s, status |-> status, error |-> error,
     returned |-> returned, ran |-> ran, ids |-> {}, insufficient |-> {},
     accountType |-> "-"]

NoResponse == Response("-", "-", 0, "", {}, FALSE)

NoCall ==
    [route |-> "-", pc |-> "idle", sess |-> "-", username |-> "", password |-> "",
     role |-> "-", restaurantId |-> NULL, monthlySalary |-> FALSE, isSetupMode |-> FALSE,
     userId |-> "-", token |-> "", done |-> {}, afterAdmin |-> FALSE]

UiEvent(handler, args) ==
    [Response(handler, "-", 0, "", {}, TRUE) EXCEPT !.ids = args]

Row(kind, id, rid) == [kind |-> kind, id |-> id, restaurantId |-> rid]


(***************************************************************************)
(* Notification fan-out.  wsClients is the in-memory registry of           *)
(* listeners; each entry carries the tenant and the conversation ids the   *)
(* upgrade callback loaded for it.  sent records the last broadcast: the   *)
(* event and the sockets it was written to.                                *)
(***************************************************************************)
SockIds == {"w1", "w2", "w3"}

ConvIds == {"c1"}

NoSocket == [state |-> "none", pending |-> FALSE, restaurantId |-> NULL, userId |-> "-"]

WSClient(w, restaurantId, userId, conversationIds) ==
    [socket |-> w, restaurantId |-> restaurantId, userId |-> userId,
     conversationIds |-> conversationIds]

NoConversation == [exists |-> FALSE, restaurantId |-> NULL, type |-> "-", members |-> {}]

Event(type, restaurantId, conversationId, ref) ==
    [type |-> type, restaurantId |-> restaurantId, conversationId |-> conversationId,
     ref |-> ref]

NoBroadcast == [event |-> Event("-", NULL, NULL, "-"), to |-> {}]

broadcastNotificationToAll(event) ==
    [event |-> event,
     to |-> {c.socket : c \in {x \in wsClients : sockets[x.socket].state = "open"}}]

broadcastNotification(event) ==
    [event |-> event,
     to |-> {c.socket : c \in
               {x \in wsClients :
                  /\ ~(x.restaurantId # event.restaurantId
                         \/ sockets[x.socket].state # "open")
                  /\ event.type = "chat:message" /\ event.conversationId # NULL
                        => event.conversationId \in x.conversationIds}}]

(***************************************************************************)
(* Middleware.  A middleware either passes (status 0) or answers the       *)
(* request itself.                                                         *)
(***************************************************************************)
Pass == [status |-> 0, error |-> ""]

Reject(status, error) == [status |-> status, error |-> error]

requireAuthOpen(sess) == Pass

requireAuth(sess) ==
    IF ~sess.user THEN Reject(401, "Not authenticated") ELSE Pass

requireITAccount(sess) ==
    IF ~sess.user THEN Reject(401, "Not authenticated")
    ELSE IF sess.accountType # "it"
         THEN Reject(403, "Access denied. IT account required.")
         ELSE Pass

requireRestaurant(sess) ==
    IF ~sess.user \/ sess.restaurantId = NULL
    THEN Reject(403, "This endpoint requires a restaurant account")
    ELSE Pass

ActionOfMethod(method) ==
    CASE method = "GET" -> "view"
      [] method = "POST" -> "add"
      [] method = "PATCH" -> "edit"
      [] OTHER -> "delete"

isAdmin(acct) == acct.role = "admin"

checkAccess(acct, feature, action) ==
    IF acct.accountType = "it" THEN feature \in ITFeatureKeys
    ELSE IF feature \in ITFeatureKeys THEN FALSE
    ELSE \/ isAdmin(acct)
         \/ action \in normalizePermission(acct.permissions[feature])

requirePermission(sess, feature, method) ==
    IF checkAccess(sess, feature, ActionOfMethod(method))
    THEN Pass
    ELSE Reject(403, "Permission denied")

Middleware(name, sess, feature, method) ==
    CASE name = "requireAuth" -> requireAuth(sess)
      [] name = "requireITAccount" -> requireITAccount(sess)
      [] name = "requireRestaurant" -> requireRestaurant(sess)
      [] OTHER -> requirePermission(sess, feature, method)

RECURSIVE RunChain(_, _, _, _)
RunChain(chain, sess, feature, method) ==
    IF chain = <<>> THEN Pass
    ELSE LET r == Middleware(Head(chain), sess, feature, method)
         IN  IF r.status # 0 THEN r
             ELSE RunChain(Tail(chain), sess, feature, method)

(***************************************************************************)
(* Route registrations: method, middleware chain and feature key.          *)
(***************************************************************************)
ClientChain == <<"requireAuth", "requireRestaurant", "requirePermission">>

ITChain == <<"requireAuth", "requireITAccount">>

Route(method, chain, feature) == [method |-> method, chain |-> chain, feature |-> feature]

RouteNames ==
    {"PATCH /api/inventory/sort", "GET /api/inventory/:id",
     "PATCH /api/inventory/:id", "DELETE /api/inventory/:id",
     "PATCH /api/addons/:id", "PATCH /api/addons/sort-order",
     "PATCH /api/recipes/:id", "PATCH /api/recipes/sort",
     "GET /api/shop/salaries/:id", "PATCH /api/shop/salaries/:id",
     "DELETE /api/shop/salaries/:id", "PATCH /api/delivery-apps/sort",
     "GET /api/it/orders", "PATCH /api/it/orders/:id",
     "GET /api/orders/:id", "POST /api/orders",
     "GET /public/invoice/:id",
     "GET /api/moyasar/payment/:paymentId",
     "POST /api/moyasar/refund/:paymentId",
     "GET /api/tickets/:id", "PATCH /api/tickets/:id", "POST /api/tickets",
     "PATCH /api/orders/:id", "GET /api/analytics/dashboard",
     "POST /api/chat/channels", "POST /api/chat/conversations/:id/messages",
     "POST /api/chat/conversations/:id/members",
     "POST /api/pos/generate-invoice", "POST /api/invoices/create-and-generate",
     "PATCH /api/users/:id", "PATCH /api/it/accounts/:id/status"}

ChatChain == <<"requireAuth", "requireRestaurant", "requireRestaurant">>

Routes ==
    [n \in RouteNames |->
      CASE n = "PATCH /api/inventory/sort" -> Route("PATCH", ClientChain, "inventory")
        [] n = "GET /api/inventory/:id" -> Route("GET", ClientChain, "inventory")
        [] n = "PATCH /api/inventory/:id" -> Route("PATCH", ClientChain, "inventory")
        [] n = "DELETE /api/inventory/:id" -> Route("DELETE", ClientChain, "inventory")
        [] n = "PATCH /api/addons/:id" -> Route("PATCH", ClientChain, "menu")
        [] n = "PATCH /api/addons/sort-order" -> Route("PATCH", ClientChain, "menu")
        [] n = "PATCH /api/recipes/:id" -> Route("PATCH", ClientChain, "recipes")
        [] n = "PATCH /api/recipes/sort" -> Route("PATCH", ClientChain, "recipes")
        [] n = "GET /api/shop/salaries/:id" -> Route("GET", ClientChain, "bills")
        [] n = "PATCH /api/shop/salaries/:id" -> Route("PATCH", ClientChain, "bills")
        [] n = "DELETE /api/shop/salaries/:id" -> Route("DELETE", ClientChain, "bills")
        [] n = "PATCH /api/delivery-apps/sort" -> Route("PATCH", ClientChain, "deliveryApps")
        [] n = "GET /api/it/orders" -> Route("GET", ITChain, "-")
        [] n = "PATCH /api/it/orders/:id" -> Route("PATCH", ITChain, "-")
        [] n = "GET /api/orders/:id" -> Route("GET", ClientChain, "orders")
        [] n = "POST /api/orders" -> Route("POST", ClientChain, "orders")
        [] n = "GET /public/invoice/:id" -> Route("GET", <<>>, "-")
        [] n = "GET /api/moyasar/payment/:paymentId" ->
               Route("GET", <<"requireAuth", "requireRestaurant">>, "-")
        [] n = "POST /api/moyasar/refund/:paymentId" -> Route("POST", <<"requireAuth">>, "-")
        [] n = "GET /api/tickets/:id" -> Route("GET", <<"requireAuth">>, "-")
        [] n = "POST /api/tickets" ->
               Route("POST", <<"requireAuth", "requireRestaurant">>, "-")
        [] n = "PATCH /api/orders/:id" -> Route("PATCH", ClientChain, "orders")
        [] n = "GET /api/analytics/dashboard" -> Route("GET", ClientChain, "dashboard")
        [] n = "POST /api/chat/channels" -> Route("POST", ChatChain, "-")
        [] n = "POST /api/chat/conversations/:id/messages" -> Route("POST", ChatChain, "-")
        [] n = "POST /api/chat/conversations/:id/members" -> Route("POST", ChatChain, "-")
        [] n = "POST /api/pos/generate-invoice" -> Route("POST", ClientChain, "pos")
        [] n = "PATCH /api/users/:id" -> Route("PATCH", ClientChain, "users")
        [] n = "PATCH /api/it/accounts/:id/status" ->
             Route("PATCH", <<"requireAuth", "requireITAccount">>, "-")
        [] n = "POST /api/invoices/create-and-generate" ->
               Route("POST", <<"requireAuth", "requireRestaurant">>, "-")
        [] OTHER -> Route("PATCH", <<"requireAuth">>, "-")]

Guard(n, sess) == RunChain(Routes[n].chain, sess, Routes[n].feature, Routes[n].method)

Rejected(n, s, g) == Response(n, s, g.status, g.error, {}, FALSE)


(***************************************************************************)
(* Storage lookups.  A tenant-filtered lookup finds a row only under the   *)
(* tenant that owns it; an unfiltered lookup finds any existing row.       *)
(***************************************************************************)
FindScoped(table, id, restaurantId) ==
    table[id].exists /\ table[id].restaurantId = restaurantId

FindAny(table, id) == table[id].exists

OwnedByRoute(table, id, restaurantId) ==
    ~(~FindAny(table, id) \/ table[id].restaurantId # restaurantId)

(***************************************************************************)
(* Inventory by-id routes                                                  *)
(***************************************************************************)
ByIdResp(n, s, kind, table, id, found, okStatus, notFound) ==
    LET g == Guard(n, sessions[s])
    IN  IF g.status # 0 THEN Rejected(n, s, g)
        ELSE IF ~found THEN Response(n, s, 404, notFound, {}, TRUE)
        ELSE Response(n, s, okStatus, "",
                      IF okStatus = 204 THEN {}
                      ELSE {Row(kind, id, table[id].restaurantId)}, TRUE)

GetInventoryItemResp(s, id) ==
    ByIdResp("GET /api/inventory/:id", s, "inventory", inventory, id,
             FindScoped(inventory, id, sessions[s].restaurantId), 200, "Item not found")

GetInventoryItem(s, id) ==
    /\ resp' = GetInventoryItemResp(s, id)
    /\ UNCHANGED <<auxVars, dbVars, sessions, reqs>>

PatchInventoryItemResp(s, id) ==
    ByIdResp("PATCH /api/inventory/:id", s, "inventory", inventory, id,
             FindScoped(inventory, id, sessions[s].restaurantId), 200, "Item not found")

PatchInventoryItem(s, id, q) ==
    /\ resp' = PatchInventoryItemResp(s, id)
    /\ inventory' = IF resp'.status = 200
                    THEN [inventory EXCEPT ![id].quantity = q]
                    ELSE inventory
    /\ UNCHANGED <<auxVars, users, salaries, deliveryApps, orders, payments, tickets,
                   invoices, sessions, reqs>>

DeleteInventoryItemResp(s, id) ==
    ByIdResp("DELETE /api/inventory/:id", s, "inventory", inventory, id,
             FindScoped(inventory, id, sessions[s].restaurantId), 204, "Item not found")

DeleteInventoryItem(s, id) ==
    /\ resp' = DeleteInventoryItemResp(s, id)
    /\ inventory' = IF resp'.status = 204
                    THEN [inventory EXCEPT ![id].exists = FALSE]
                    ELSE inventory
    /\ UNCHANGED <<auxVars, users, salaries, deliveryApps, orders, payments, tickets,
                   invoices, sessions, reqs>>

(***************************************************************************)
(* Salary by-id routes: unfiltered lookup, ownership tested in the route   *)
(***************************************************************************)
GetSalaryResp(s, id) ==
    ByIdResp("GET /api/shop/salaries/:id", s, "salary", salaries, id,
             OwnedByRoute(salaries, id, sessions[s].restaurantId), 200, "Salary not found")

GetSalary(s, id) ==
    /\ resp' = GetSalaryResp(s, id)
    /\ UNCHANGED <<auxVars, dbVars, sessions, reqs>>

PatchSalaryResp(s, id) ==
    ByIdResp("PATCH /api/shop/salaries/:id", s, "salary", salaries, id,
             OwnedByRoute(salaries, id, sessions[s].restaurantId), 200, "Salary not found")

PatchSalary(s, id, amount) ==
    /\ resp' = PatchSalaryResp(s, id)
    /\ salaries' = IF resp'.status = 200
                   THEN [salaries EXCEPT ![id].amount = amount]
                   ELSE salaries
    /\ UNCHANGED <<auxVars, users, inventory, deliveryApps, orders, payments, tickets,
                   invoices, sessions, reqs>>

DeleteSalaryResp(s, id) ==
    ByIdResp("DELETE /api/shop/salaries/:id", s, "salary", salaries, id,
             OwnedByRoute(salaries, id, sessions[s].restaurantId), 204, "Salary not found")

DeleteSalary(s, id) ==
    /\ resp' = DeleteSalaryResp(s, id)
    /\ salaries' = IF resp'.status = 204
                   THEN [salaries EXCEPT ![id].exists = FALSE]
                   ELSE salaries
    /\ UNCHANGED <<auxVars, users, inventory, deliveryApps, orders, payments, tickets,
                   invoices, sessions, reqs>>

(***************************************************************************)
(* Orders: tenant read, IT cross-tenant list and status update             *)
(***************************************************************************)
GetOrderResp(s, id) ==
    ByIdResp("GET /api/orders/:id", s, "order", orders, id,
             FindScoped(orders, id, sessions[s].restaurantId), 200, "Order not found")

GetOrder(s, id) ==
    /\ resp' = GetOrderResp(s, id)
    /\ UNCHANGED <<auxVars, dbVars, sessions, reqs>>

GetITOrders(s) ==
    LET n == "GET /api/it/orders"
        g == Guard(n, sessions[s])
    IN  /\ resp' = IF g.status # 0 THEN Rejected(n, s, g)
                   ELSE Response(n, s, 200, "",
                          {Row("order", o, orders[o].restaurantId) :
                              o \in {x \in OrderIds : orders[x].exists}}, TRUE)
        /\ UNCHANGED <<auxVars, dbVars, sessions, reqs>>

(* A request body: status is NULL when the key is absent; items is the set *)
(* holding the value of the key, empty when the key is absent.             *)
OrderPatch(status, items) == [status |-> status, items |-> items]

sanitizePatchBody(body) == body

updateOrder(table, id, restaurantId, data) ==
    IF ~FindScoped(table, id, restaurantId) THEN table
    ELSE [table EXCEPT
            ![id].status = IF data.status = NULL THEN @ ELSE data.status,
            ![id].items = IF data.items = {} THEN @ ELSE CHOOSE v \in data.items : TRUE]

PatchOrderRestocking(s, id, body) ==
    LET n == "PATCH /api/orders/:id"
        restaurantId == sessions[s].restaurantId
        safeData == sanitizePatchBody(body)
    IN  /\ resp' = ByIdResp(n, s, "order", orders, id,
                            FindScoped(orders, id, restaurantId), 200, "Order not found")
        /\ orders' = IF resp'.status = 200
                     THEN updateOrder(orders, id, restaurantId, safeData)
                     ELSE orders
        /\ inventory' = IF resp'.status = 200 /\ safeData.status = "Cancelled"
                        THEN [inventory EXCEPT !["i1"].quantity = @ + Len(orders[id].items)]
                        ELSE inventory
        /\ sent' = IF resp'.status = 200
                   THEN broadcastNotification(
                           Event("order:statusUpdated", restaurantId, NULL, id))
                   ELSE sent
        /\ UNCHANGED <<quietVars, users, salaries, deliveryApps, payments,
                       tickets, invoices, sessions, reqs>>

PatchOrder(s, id, body) ==
    LET n == "PATCH /api/orders/:id"
        restaurantId == sessions[s].restaurantId
        safeData == sanitizePatchBody(body)
    IN  /\ resp' = ByIdResp(n, s, "order", orders, id,
                            FindScoped(orders, id, restaurantId), 200, "Order not found")
        /\ orders' = IF resp'.status = 200
                     THEN updateOrder(orders, id, restaurantId, safeData)
                     ELSE orders
        /\ sent' = IF resp'.status = 200
                   THEN broadcastNotification(
                           Event("order:statusUpdated", restaurantId, NULL, id))
                   ELSE sent
        /\ UNCHANGED <<quietVars, users, inventory, salaries, deliveryApps, payments,
                       tickets, invoices, sessions, reqs>>

activeOrders(restaurantId) ==
    {o \in OrderIds : /\ FindScoped(orders, o, restaurantId)
                      /\ orders[o].status # "Completed"
                      /\ orders[o].status # "Cancelled"}

GetDashboard(s) ==
    LET n == "GET /api/analytics/dashboard"
        g == Guard(n, sessions[s])
        restaurantId == sessions[s].restaurantId
    IN  /\ resp' = IF g.status # 0 THEN Rejected(n, s, g)
                   ELSE Response(n, s, 200, "",
                          {Row("order", o, restaurantId) : o \in activeOrders(restaurantId)},
                          TRUE)
        /\ UNCHANGED <<auxVars, dbVars, sessions, reqs>>

PatchITOrder(s, id, status) ==
    LET n == "PATCH /api/it/orders/:id"
    IN  /\ resp' = ByIdResp(n, s, "order", orders, id, FindAny(orders, id),
                            200, "Order not found")
        /\ orders' = IF resp'.status = 200
                     THEN updateOrder(orders, id, orders[id].restaurantId,
                                      OrderPatch(status, {}))
                     ELSE orders
        /\ sent' = IF resp'.status = 200
                   THEN broadcastNotification(
                           Event("order:statusUpdated", orders[id].restaurantId, NULL, id))
                   ELSE sent
        /\ UNCHANGED <<quietVars, users, inventory, salaries, deliveryApps, payments,
                       tickets, invoices, sessions, reqs>>


(***************************************************************************)
(* Payment routes.  The gateway holds the payment (status); the tenant's   *)
(* row mirrors it (dbStatus) and is updated only under the caller's tenant.*)
(***************************************************************************)
fetchPayment(id) == payments[id].exists

refundPayment(id) == payments[id].exists /\ payments[id].status = "paid"

GetPaymentResp(s, id) ==
    LET n == "GET /api/moyasar/payment/:paymentId"
        g == Guard(n, sessions[s])
    IN  IF g.status # 0 THEN Rejected(n, s, g)
        ELSE IF ~fetchPayment(id)
             THEN Response(n, s, 500, "Failed to fetch payment", {}, TRUE)
             ELSE Response(n, s, 200, "",
                           {Row("payment", id, payments[id].restaurantId)}, TRUE)

GetPayment(s, id) ==
    /\ resp' = GetPaymentResp(s, id)
    /\ payments' = IF /\ resp'.status = 200
                      /\ FindScoped(payments, id, sessions[s].restaurantId)
                   THEN [payments EXCEPT ![id].dbStatus = payments[id].status]
                   ELSE payments
    /\ UNCHANGED <<auxVars, users, inventory, salaries, deliveryApps, orders, tickets,
                   invoices, sessions, reqs>>

RefundPaymentResp(s, id) ==
    LET n == "POST /api/moyasar/refund/:paymentId"
        g == Guard(n, sessions[s])
    IN  IF g.status # 0 THEN Rejected(n, s, g)
        ELSE IF ~refundPayment(id)
             THEN Response(n, s, 500, "Refund failed", {}, TRUE)
             ELSE Response(n, s, 200, "",
                           {Row("payment", id, payments[id].restaurantId)}, TRUE)

RefundPayment(s, id) ==
    /\ resp' = RefundPaymentResp(s, id)
    /\ payments' =
         IF resp'.status # 200 THEN payments
         ELSE IF FindScoped(payments, id, sessions[s].restaurantId)
              THEN [payments EXCEPT ![id].status = "refunded",
                                    ![id].dbStatus = "refunded"]
              ELSE [payments EXCEPT ![id].status = "refunded"]
    /\ UNCHANGED <<auxVars, users, inventory, salaries, deliveryApps, orders, tickets,
                   invoices, sessions, reqs>>

(* Invoice generation: both routes read the order under the session's      *)
(* tenant, insert an invoice row, render the PDF and then fill in the QR   *)
(* code and the PDF path of the row just created.                          *)
NoInvoice ==
    [exists |-> FALSE, restaurantId |-> NULL, orderId |-> NULL, qrCode |-> "", pdfPath |-> ""]

Invoice(restaurantId, orderId, qrCode, pdfPath) ==
    [exists |-> TRUE, restaurantId |-> restaurantId, orderId |-> orderId,
     qrCode |-> qrCode, pdfPath |-> pdfPath]

FreshInvoiceId == CHOOSE v \in InvoiceIds : ~invoices[v].exists

createInvoice(table, id, invoiceData) == [table EXCEPT ![id] = invoiceData]

updateInvoice(table, id, restaurantId, data) ==
    IF ~FindScoped(table, id, restaurantId) THEN table
    ELSE [table EXCEPT ![id].qrCode = data.qrCode, ![id].pdfPath = data.pdfPath]

GenerateInvoice(n, s, orderId, pdfOk) ==
    LET g == Guard(n, sessions[s])
        restaurantId == sessions[s].restaurantId
        found == orderId # NULL /\ FindScoped(orders, orderId, restaurantId)
        id == FreshInvoiceId
        created == createInvoice(invoices, id, Invoice(restaurantId, orderId, "", ""))
    IN  /\ \E v \in InvoiceIds : ~invoices[v].exists
        /\ resp' = IF g.status # 0 THEN Rejected(n, s, g)
                   ELSE IF orderId = NULL
                        THEN Response(n, s, 400, "Order ID required", {}, TRUE)
                   ELSE IF ~found
                        THEN Response(n, s, 404, "Order not found", {}, TRUE)
                   ELSE IF ~pdfOk
                        THEN [Response(n, s, 500, "Failed to generate invoice", {}, TRUE)
                                EXCEPT !.ids = {id}]
                   ELSE [Response(n, s, 200, "", {Row("order", orderId, restaurantId)}, TRUE)
                           EXCEPT !.ids = {id}]
        /\ invoices' = IF g.status # 0 \/ ~found THEN invoices
                       ELSE IF ~pdfOk THEN created
                       ELSE updateInvoice(created, id, restaurantId,
                                [qrCode |-> "qr", pdfPath |-> "/invoices/INV-" \o orderId \o ".pdf"])
        /\ UNCHANGED <<auxVars, users, inventory, salaries, deliveryApps, orders, payments,
                       tickets, sessions, reqs>>

(* The gateway's webhook: no session; the payment row is found under any   *)
(* tenant and a paid payment marks its order paid.                         *)
MoyasarCallback(id, signed) ==
    LET n == "POST /api/moyasar/callback"
        respond(status, error) ==
            [Response(n, "-", status, error, {}, TRUE) EXCEPT !.ids = {id}]
        ok == signed /\ fetchPayment(id)
    IN  /\ resp' = IF ~signed THEN respond(401, "Unauthorized: Invalid signature")
                   ELSE IF ~fetchPayment(id)
                        THEN respond(500, "Callback processing failed")
                        ELSE respond(200, "")
        /\ payments' = IF ok
                       THEN [payments EXCEPT ![id].dbStatus = payments[id].status]
                       ELSE payments
        /\ orders' = IF ok /\ payments[id].status = "paid" /\ payments[id].orderId # NULL
                     THEN updateOrder(orders, payments[id].orderId,
                                      payments[id].restaurantId, OrderPatch("paid", {}))
                     ELSE orders
        /\ UNCHANGED <<auxVars, users, inventory, salaries, deliveryApps, tickets,
                       invoices, sessions, reqs>>

(***************************************************************************)
(* Support tickets: one route serves both account types                    *)
(***************************************************************************)
TicketFound(sess, id) ==
    IF sess.accountType = "it" THEN FindAny(tickets, id)
    ELSE FindScoped(tickets, id, sess.restaurantId)

restrictedStatuses == {"in-progress", "resolved", "closed"}

TicketRespUnrestricted(n, s, id, status) ==
    LET sess == sessions[s]
        g == Guard(n, sess)
    IN  IF g.status # 0 THEN Rejected(n, s, g)
        ELSE IF sess.accountType # "it" /\ sess.restaurantId = NULL
             THEN Response(n, s, 403, "This endpoint requires a restaurant account", {}, TRUE)
        ELSE IF ~TicketFound(sess, id)
             THEN Response(n, s, 404, "Ticket not found", {}, TRUE)
        ELSE Response(n, s, 200, "", {Row("ticket", id, tickets[id].restaurantId)}, TRUE)

TicketResp(n, s, id, status) ==
    LET sess == sessions[s]
        g == Guard(n, sess)
    IN  IF g.status # 0 THEN Rejected(n, s, g)
        ELSE IF /\ status \in restrictedStatuses
                /\ sess.accountType # "it"
             THEN Response(n, s, 403,
                    "Only IT support can set ticket status to In Progress, Resolved, or Closed",
                    {}, TRUE)
        ELSE IF sess.accountType # "it" /\ sess.restaurantId = NULL
             THEN Response(n, s, 403, "This endpoint requires a restaurant account", {}, TRUE)
        ELSE IF ~TicketFound(sess, id)
             THEN Response(n, s, 404, "Ticket not found", {}, TRUE)
        ELSE Response(n, s, 200, "", {Row("ticket", id, tickets[id].restaurantId)}, TRUE)

GetTicket(s, id) ==
    /\ resp' = TicketResp("GET /api/tickets/:id", s, id, "-")
    /\ UNCHANGED <<auxVars, dbVars, sessions, reqs>>

(* status is the body's status, NULL when the body has none. *)
PatchTicket(s, id, status) ==
    /\ resp' = TicketResp("PATCH /api/tickets/:id", s, id, status)
    /\ tickets' = IF resp'.status = 200 /\ status # NULL
                  THEN [tickets EXCEPT ![id].status = status]
                  ELSE tickets
    /\ UNCHANGED <<auxVars, users, inventory, salaries, deliveryApps, orders, payments,
                   invoices, sessions, reqs>>

NoTicket == [exists |-> FALSE, restaurantId |-> NULL, status |-> "-"]

(* The body's status is not read: a new ticket is always open. *)
PostTicket(s, status) ==
    LET n == "POST /api/tickets"
        g == Guard(n, sessions[s])
        restaurantId == sessions[s].restaurantId
        id == CHOOSE t \in TicketIds : ~tickets[t].exists
    IN  /\ g.status = 0 => \E t \in TicketIds : ~tickets[t].exists
        /\ resp' = IF g.status # 0 THEN Rejected(n, s, g)
                   ELSE Response(n, s, 201, "", {Row("ticket", id, restaurantId)}, TRUE)
        /\ tickets' = IF g.status # 0 THEN tickets
                      ELSE [tickets EXCEPT ![id] =
                              [exists |-> TRUE, restaurantId |-> restaurantId,
                               status |-> "open"]]
        /\ sent' = IF g.status # 0 THEN sent
                   ELSE broadcastNotification(Event("ticket:created", restaurantId, NULL, id))
        /\ UNCHANGED <<quietVars, users, inventory, salaries, deliveryApps, orders,
                       payments, invoices, sessions, reqs>>

(***************************************************************************)
(* Public invoice viewer: no middleware, unfiltered lookup                 *)
(***************************************************************************)
GetPublicInvoice(s, id) ==
    /\ resp' = ByIdResp("GET /public/invoice/:id", s, "invoice", invoices, id,
                        FindAny(invoices, id), 200, "Invoice Not Found")
    /\ UNCHANGED <<auxVars, dbVars, sessions, reqs>>


(***************************************************************************)
(* Express resolves a request to the first registered route whose pattern  *)
(* matches; a ":id" segment matches any segment, "sort" included.          *)
(***************************************************************************)
Registered ==
    << [base |-> "/api/inventory", seg |-> "sort", name |-> "PATCH /api/inventory/sort"],
       [base |-> "/api/inventory", seg |-> ":id", name |-> "PATCH /api/inventory/:id"],
       [base |-> "/api/addons", seg |-> ":id", name |-> "PATCH /api/addons/:id"],
       [base |-> "/api/addons", seg |-> "sort-order", name |-> "PATCH /api/addons/sort-order"],
       [base |-> "/api/delivery-apps", seg |-> "sort", name |-> "PATCH /api/delivery-apps/sort"],
       [base |-> "/api/delivery-apps", seg |-> ":id", name |-> "PATCH /api/delivery-apps/:id"],
       [base |-> "/api/recipes", seg |-> ":id", name |-> "PATCH /api/recipes/:id"],
       [base |-> "/api/recipes", seg |-> "sort", name |-> "PATCH /api/recipes/sort"] >>

Matches(k, base, seg) ==
    /\ Registered[k].base = base
    /\ Registered[k].seg \in {":id", seg}

Resolve(base, seg) ==
    LET k == CHOOSE k \in DOMAIN Registered :
                 /\ Matches(k, base, seg)
                 /\ \A j \in 1..(k - 1) : ~Matches(j, base, seg)
    IN  Registered[k].name

(***************************************************************************)
(* Bulk sort-order routes                                                  *)
(***************************************************************************)
Update(id, sortOrder) == [id |-> id, sortOrder |-> sortOrder]

Batches(ids) ==
    {<<>>}
      \cup {<<Update(a, x)>> : a \in ids, x \in 1..MaxSort}
      \cup {<<Update(a, x), Update(b, y)>> :
                a \in ids, b \in ids, x \in 1..MaxSort, y \in 1..MaxSort}

Bodies(ids) ==
    {[isArray |-> TRUE, updates |-> u] : u \in Batches(ids)}
      \cup {[isArray |-> FALSE, updates |-> <<>>]}

BatchIds(updates) == {updates[k].id : k \in DOMAIN updates}

getInventoryItems(restaurantId) ==
    {i \in ItemIds : FindScoped(inventory, i, restaurantId)}

invalidIdsUnchecked(validIds, updates) == {}

invalidIds(validIds, updates) == BatchIds(updates) \ validIds

RECURSIVE updateSortOrder(_, _, _)
updateSortOrder(table, scope, updates) ==
    IF updates = <<>> THEN table
    ELSE LET u == Head(updates)
             hit == /\ table[u.id].exists
                    /\ scope \in {"*", table[u.id].restaurantId}
         IN  updateSortOrder(
                 IF hit THEN [table EXCEPT ![u.id].sortOrder = u.sortOrder] ELSE table,
                 scope, Tail(updates))

SortResp(n, s, body, bad, badError) ==
    LET g == Guard(n, sessions[s])
        r == IF g.status # 0 THEN Rejected(n, s, g)
             ELSE IF ~body.isArray
                  THEN Response(n, s, 400, "Invalid updates format", {}, TRUE)
             ELSE IF bad THEN Response(n, s, 403, badError, {}, TRUE)
             ELSE Response(n, s, 200, "", {}, TRUE)
    IN  [r EXCEPT !.ids = BatchIds(body.updates)]

PatchInventorySort(s, body) ==
    LET n == Resolve("/api/inventory", "sort")
        restaurantId == sessions[s].restaurantId
        validIds == getInventoryItems(restaurantId)
    IN  /\ n = "PATCH /api/inventory/sort"
        /\ resp' = SortResp(n, s, body, invalidIds(validIds, body.updates) # {},
                            "Some inventory IDs do not belong to your restaurant")
        /\ inventory' = IF resp'.status = 200
                        THEN updateSortOrder(inventory, restaurantId, body.updates)
                        ELSE inventory
        /\ UNCHANGED <<auxVars, users, salaries, deliveryApps, orders, payments, tickets,
                       invoices, sessions, reqs>>

PatchDeliveryAppsSort(s, body) ==
    LET n == Resolve("/api/delivery-apps", "sort")
        restaurantId == sessions[s].restaurantId
        bad == \E k \in DOMAIN body.updates :
                  ~OwnedByRoute(deliveryApps, body.updates[k].id, restaurantId)
    IN  /\ n = "PATCH /api/delivery-apps/sort"
        /\ resp' = SortResp(n, s, body, bad, "Unauthorized")
        /\ deliveryApps' = IF resp'.status = 200
                           THEN updateSortOrder(deliveryApps, "*", body.updates)
                           ELSE deliveryApps
        /\ UNCHANGED <<auxVars, users, inventory, salaries, orders, payments, tickets,
                       invoices, sessions, reqs>>

(* PATCH /api/recipes/sort and PATCH /api/addons/sort-order are registered  *)
(* after the ":id" route of the same prefix, so the ":id" handler answers   *)
(* with id = "sort": no row has that id (404), or the update throws (400).  *)
PatchShadowedSort(s, base, seg, body, notFound, invalid) ==
    LET n == Resolve(base, seg)
        g == Guard(n, sessions[s])
    IN  /\ n \in {"PATCH /api/recipes/:id", "PATCH /api/addons/:id"}
        /\ \E outcome \in {Reject(404, notFound), Reject(400, invalid)} :
              resp' = [(IF g.status # 0 THEN Rejected(n, s, g)
                        ELSE Response(n, s, outcome.status, outcome.error, {}, TRUE))
                       EXCEPT !.ids = BatchIds(body.updates)]
        /\ UNCHANGED <<auxVars, dbVars, sessions, reqs>>

PatchRecipesSort(s, body) ==
    PatchShadowedSort(s, "/api/recipes", "sort", body, "Recipe not found", "Invalid recipe data")

PatchAddonsSortOrder(s, body) ==
    PatchShadowedSort(s, "/api/addons", "sort-order", body, "Add-on not found", "Invalid add-on data")


(***************************************************************************)
(* Login, logout and the WebSocket upgrade                                 *)
(***************************************************************************)
getUserByUsername(username) ==
    {u \in UserIds : users[u].exists /\ users[u].username = username}

validAccountType(user) == IF user.restaurantId = NULL THEN "it" ELSE "client"

LoginOutcomeTrustingBody(username, password, accountType) ==
    LET found == getUserByUsername(username)
        uid == CHOOSE u \in found : TRUE
    IN  IF username = "" \/ password = ""
        THEN [status |-> 400, error |-> "Username and password required", session |-> NoSession]
        ELSE IF found = {} \/ ~users[uid].active \/ users[uid].password # password
        THEN [status |-> 401, error |-> "Invalid credentials", session |-> NoSession]
        ELSE [status |-> 200, error |-> "",
              session |-> SessionOf(uid, users[uid], accountType)]

LoginOutcome(username, password, accountType) ==
    LET found == getUserByUsername(username)
        uid == CHOOSE u \in found : TRUE
    IN  IF username = "" \/ password = ""
        THEN [status |-> 400, error |-> "Username and password required", session |-> NoSession]
        ELSE IF found = {} \/ ~users[uid].active \/ users[uid].password # password
        THEN [status |-> 401, error |-> "Invalid credentials", session |-> NoSession]
        ELSE [status |-> 200, error |-> "",
              session |-> SessionOf(uid, users[uid], validAccountType(users[uid]))]

Login(s, username, password, accountType) ==
    LET n == "POST /api/auth/login"
        out == LoginOutcome(username, password, accountType)
    IN  /\ resp' = [Response(n, s, out.status, out.error, {}, TRUE)
                      EXCEPT !.ids = {accountType},
                             !.accountType = out.session.accountType]
        /\ sessions' = IF out.status = 200
                       THEN [sessions EXCEPT ![s] = out.session]
                       ELSE sessions
        /\ UNCHANGED <<auxVars, dbVars, reqs>>

Logout(s) ==
    /\ resp' = Response("POST /api/auth/logout", s, 200, "", {}, TRUE)
    /\ sessions' = [sessions EXCEPT ![s] = NoSession]
    /\ UNCHANGED <<auxVars, dbVars, reqs>>

WsUpgrade(s, w) ==
    LET n == "UPGRADE /ws/notifications"
        session == sessions[s]
    IN  /\ sockets[w].state = "none"
        /\ resp' = [(IF ~session.user
                     THEN Response(n, s, 401, "Unauthorized", {}, FALSE)
                     ELSE Response(n, s, 101, "", {}, TRUE))
                    EXCEPT !.ids = {w}]
        /\ sockets' = IF ~session.user THEN sockets
                      ELSE [sockets EXCEPT ![w] =
                              [state |-> "open", pending |-> TRUE,
                               restaurantId |-> session.restaurantId,
                               userId |-> session.id]]
        /\ UNCHANGED <<formData, wsClients, conversations, sent, dbVars, sessions, reqs, acctVars>>

getConversations(restaurantId, userId) ==
    {c \in ConvIds : /\ conversations[c].exists
                     /\ conversations[c].restaurantId = restaurantId
                     /\ userId \in conversations[c].members}

(* The callback of handleUpgrade: load the user's conversations (an empty  *)
(* set when the load fails), add the client, then attach the close and     *)
(* error handlers.                                                         *)
WsRegister(w, loaded) ==
    LET restaurantId == sockets[w].restaurantId
        userId == sockets[w].userId
        conversationIds == IF loaded THEN getConversations(restaurantId, userId) ELSE {}
    IN  /\ sockets[w].pending
        /\ wsClients' = wsClients \cup {WSClient(w, restaurantId, userId, conversationIds)}
        /\ sockets' = [sockets EXCEPT ![w].pending = FALSE]
        /\ resp' = UiEvent("ws connection", {w})
        /\ UNCHANGED <<formData, conversations, sent, dbVars, sessions, reqs, acctVars>>

(* readyState leaves OPEN when the closing handshake starts *)
WsClosing(w) ==
    /\ sockets[w].state = "open"
    /\ sockets' = [sockets EXCEPT ![w].state = "closing"]
    /\ resp' = UiEvent("ws closing", {w})
    /\ UNCHANGED <<formData, wsClients, conversations, sent, dbVars, sessions, reqs, acctVars>>

(* The close event: the handler, once attached, deletes the client *)
WsClosed(w) ==
    /\ sockets[w].state \in {"open", "closing"}
    /\ IF sockets[w].pending
       THEN /\ sockets' = [sockets EXCEPT ![w].state = "closed"]
            /\ UNCHANGED wsClients
       ELSE /\ sockets' = [sockets EXCEPT ![w] = NoSocket]
            /\ wsClients' = {c \in wsClients : c.socket # w}
    /\ resp' = UiEvent("ws close", {w})
    /\ UNCHANGED <<formData, conversations, sent, dbVars, sessions, reqs, acctVars>>

(***************************************************************************)
(* Team chat: channels, members and messages                               *)
(***************************************************************************)
isUserInConversation(conversationId, userId, restaurantId) ==
    /\ conversations[conversationId].exists
    /\ conversations[conversationId].restaurantId = restaurantId
    /\ userId \in conversations[conversationId].members

ChatResponse(n, s, status, error, c) ==
    [Response(n, s, status, error, {}, TRUE) EXCEPT !.ids = {c}]

PostChannel(s, c, name) ==
    LET n == "POST /api/chat/channels"
        g == Guard(n, sessions[s])
        restaurantId == sessions[s].restaurantId
        userId == sessions[s].id
    IN  /\ ~conversations[c].exists
        /\ resp' = IF g.status # 0 THEN [Rejected(n, s, g) EXCEPT !.ids = {c}]
                   ELSE IF name = ""
                        THEN ChatResponse(n, s, 400, "Name and scope are required", c)
                        ELSE ChatResponse(n, s, 201, "", c)
        /\ conversations' =
              IF resp'.status # 201 THEN conversations
              ELSE [conversations EXCEPT ![c] =
                      [exists |-> TRUE, restaurantId |-> restaurantId,
                       type |-> "channel", members |-> {userId}]]
        /\ UNCHANGED <<formData, sockets, wsClients, sent, dbVars, sessions, reqs, acctVars>>

PostMember(s, c, newUserId) ==
    LET n == "POST /api/chat/conversations/:id/members"
        g == Guard(n, sessions[s])
        restaurantId == sessions[s].restaurantId
        userId == sessions[s].id
    IN  /\ resp' =
              IF g.status # 0 THEN [Rejected(n, s, g) EXCEPT !.ids = {c}]
              ELSE IF ~isUserInConversation(c, userId, restaurantId)
                   THEN ChatResponse(n, s, 403, "Not a member of this conversation", c)
              ELSE IF conversations[c].type # "channel"
                   THEN ChatResponse(n, s, 400, "Can only add members to channels", c)
              ELSE IF ~FindScoped(users, newUserId, restaurantId)
                   THEN ChatResponse(n, s, 404, "User not found", c)
              ELSE IF isUserInConversation(c, newUserId, restaurantId)
                   THEN ChatResponse(n, s, 400, "User is already a member", c)
              ELSE ChatResponse(n, s, 201, "", c)
        /\ conversations' =
              IF resp'.status # 201 THEN conversations
              ELSE [conversations EXCEPT ![c].members = @ \cup {newUserId}]
        /\ UNCHANGED <<formData, sockets, wsClients, sent, dbVars, sessions, reqs, acctVars>>

PostMessage(s, c, content) ==
    LET n == "POST /api/chat/conversations/:id/messages"
        g == Guard(n, sessions[s])
        restaurantId == sessions[s].restaurantId
        userId == sessions[s].id
    IN  /\ resp' =
              IF g.status # 0 THEN [Rejected(n, s, g) EXCEPT !.ids = {c}]
              ELSE IF content = ""
                   THEN ChatResponse(n, s, 400, "Message content is required", c)
              ELSE IF ~isUserInConversation(c, userId, restaurantId)
                   THEN ChatResponse(n, s, 403, "Not a member of this conversation", c)
              ELSE IF ~FindScoped(users, userId, restaurantId)
                   THEN ChatResponse(n, s, 404, "User not found", c)
              ELSE ChatResponse(n, s, 201, "", c)
        /\ sent' = IF resp'.status = 201
                   THEN broadcastNotification(Event("chat:message", restaurantId, c, userId))
                   ELSE sent
        /\ UNCHANGED <<formData, liveVars, dbVars, sessions, reqs, acctVars>>

(***************************************************************************)
(* Account creation.  Each handler is a chain of awaited storage calls: a  *)
(* request in flight is a record of calls, and one action is the code      *)
(* that runs from the completion of one awaited call to the next.          *)
(***************************************************************************)
hasUsername(table, username) ==
    \E u \in UserIds : table[u].exists /\ table[u].username = username

FreshUserId == CHOOSE u \in UserIds : ~users[u].exists

FreshRestaurantId == CHOOSE t \in RestaurantIds : ~restaurants[t].exists

FreshSalaryId == CHOOSE k \in SalaryIds : ~salaries[k].exists

createUserUnchecked(table, id, row) ==
    [ok |-> TRUE, table |-> [table EXCEPT ![id] = row]]

(* The username column is unique: the insert of a taken name is rejected.  *)
createUser(table, id, row) ==
    IF hasUsername(table, row.username)
    THEN [ok |-> FALSE, table |-> table]
    ELSE [ok |-> TRUE, table |-> [table EXCEPT ![id] = row]]

updateUser(table, id, restaurantId, data) ==
    LET renamed == data.username # {}
        name == CHOOSE v \in data.username : TRUE
        taken == renamed /\ \E u \in UserIds \ {id} :
                                table[u].exists /\ table[u].username = name
    IN  IF ~FindScoped(table, id, restaurantId) THEN [ok |-> TRUE, found |-> FALSE, table |-> table]
        ELSE IF taken THEN [ok |-> FALSE, found |-> TRUE, table |-> table]
        ELSE [ok |-> TRUE, found |-> TRUE,
              table |-> [table EXCEPT
                  ![id].username = IF renamed THEN name ELSE @,
                  ![id].active = IF data.active = {} THEN @
                                 ELSE CHOOSE v \in data.active : TRUE,
                  ![id].role = IF data.role = {} THEN @
                               ELSE CHOOSE v \in data.role : TRUE,
                  ![id].restaurantId = IF data.restaurantId = {} THEN @
                                       ELSE CHOOSE v \in data.restaurantId : TRUE]]

(* A PATCH body: each key is the set holding its value, empty when absent. *)
UserPatch(username, active) ==
    [username |-> username, active |-> active, role |-> {}, restaurantId |-> {}]

WithKeys(body, role, restaurantId) ==
    [body EXCEPT !.role = role, !.restaurantId = restaurantId]

updateDataUnstripped(body) == body

updateData(body) == [body EXCEPT !.role = {}, !.restaurantId = {}]

PatchUser(s, id, body) ==
    LET n == "PATCH /api/users/:id"
        g == Guard(n, sessions[s])
        out == updateUser(users, id, sessions[s].restaurantId, updateData(body))
    IN  /\ resp' = IF g.status # 0 THEN Rejected(n, s, g)
                   ELSE IF sessions[s].role # "admin"
                        THEN Response(n, s, 403, "Admin access required", {}, TRUE)
                   ELSE IF ~out.ok
                        THEN Response(n, s, 400, "Invalid user data", {}, TRUE)
                   ELSE IF ~out.found
                        THEN Response(n, s, 404, "User not found", {}, TRUE)
                   ELSE Response(n, s, 200, "",
                                 {Row("user", id, sessions[s].restaurantId)}, TRUE)
        /\ users' = IF resp'.status = 200 THEN out.table ELSE users
        /\ UNCHANGED <<auxVars, inventory, salaries, deliveryApps, orders, payments,
                       tickets, invoices, sessions, reqs>>

(* IT enables or disables an account of any tenant; active is the set     *)
(* holding the body's boolean, empty when the body has none.               *)
PatchAccountStatus(s, id, active) ==
    LET n == "PATCH /api/it/accounts/:id/status"
        g == Guard(n, sessions[s])
        ok == g.status = 0 /\ active # {} /\ users[id].exists
    IN  /\ resp' = IF g.status # 0 THEN Rejected(n, s, g)
                   ELSE IF active = {}
                        THEN Response(n, s, 400, "Active status must be a boolean", {}, TRUE)
                   ELSE IF ~users[id].exists
                        THEN Response(n, s, 404, "Account not found", {}, TRUE)
                   ELSE Response(n, s, 200, "",
                                 {Row("user", id, users[id].restaurantId)}, TRUE)
        /\ users' = IF ok THEN [users EXCEPT ![id].active = CHOOSE v \in active : TRUE]
                    ELSE users
        /\ UNCHANGED <<auxVars, inventory, salaries, deliveryApps, orders, payments,
                       tickets, invoices, sessions, reqs>>

UserBody(username, role, restaurantId, monthlySalary) ==
    [username |-> username, role |-> role, restaurantId |-> restaurantId,
     monthlySalary |-> monthlySalary]

Reply(q, status, error) ==
    /\ resp' = [Response(calls[q].route, calls[q].sess, status, error, {}, TRUE)
                  EXCEPT !.ids = {q}]
    /\ calls' = [calls EXCEPT ![q] = NoCall]

Await(q, pc) == calls' = [calls EXCEPT ![q].pc = pc]

PostSignup(q, username, complete) ==
    LET n == "POST /api/auth/signup"
    IN  /\ calls[q].pc = "idle"
        /\ IF ~complete \/ username = ""
           THEN /\ resp' = [Response(n, "-", 400, "All fields are required", {}, TRUE)
                              EXCEPT !.ids = {q}]
                /\ UNCHANGED calls
           ELSE /\ calls' = [calls EXCEPT ![q] =
                               [NoCall EXCEPT !.route = n, !.pc = "getUserByUsername",
                                              !.username = username, !.password = "pw",
                                              !.role = "admin"]]
                /\ UNCHANGED resp
        /\ UNCHANGED <<formData, liveVars, sent, dbVars, sessions, reqs,
                       restaurants, bootstrapTokens>>

VALID_SECRET_KEY == "KinzhalLTDCo@1990"

PostITSignup(q, username, secretKey) ==
    LET n == "POST /api/auth/it-signup"
        respond(status, error) ==
            [Response(n, "-", status, error, {}, TRUE) EXCEPT !.ids = {q}]
    IN  /\ calls[q].pc = "idle"
        /\ IF username = "" \/ secretKey = ""
           THEN resp' = respond(400, "All fields are required including secret key")
                /\ UNCHANGED calls
           ELSE IF secretKey # VALID_SECRET_KEY
           THEN resp' = respond(403, "Invalid secret key") /\ UNCHANGED calls
           ELSE /\ calls' = [calls EXCEPT ![q] =
                               [NoCall EXCEPT !.route = n, !.pc = "getUserByUsername",
                                              !.username = username, !.password = "pw",
                                              !.role = "admin"]]
                /\ UNCHANGED resp
        /\ UNCHANGED <<formData, liveVars, sent, dbVars, sessions, reqs,
                       restaurants, bootstrapTokens>>

hasAdmin(restaurantId) ==
    \E u \in UserIds : /\ users[u].exists
                       /\ users[u].restaurantId = restaurantId
                       /\ users[u].role = "admin"

PostUsers(q, s, body) ==
    LET n == "POST /api/users"
        session == sessions[s]
        respond(status, error) ==
            [Response(n, s, status, error, {}, TRUE) EXCEPT !.ids = {q}]
        call == [NoCall EXCEPT !.route = n, !.sess = s, !.username = body.username,
                               !.password = "pw", !.role = body.role,
                               !.monthlySalary = body.monthlySalary]
    IN  /\ calls[q].pc = "idle"
        /\ IF session.user
           THEN IF session.role # "admin"
                THEN resp' = respond(403, "Admin access required") /\ UNCHANGED calls
                ELSE IF body.username = ""
                THEN resp' = respond(400, "Invalid user data") /\ UNCHANGED calls
                ELSE /\ calls' = [calls EXCEPT ![q] =
                                    [call EXCEPT !.pc = "getUserByUsername",
                                                 !.restaurantId = session.restaurantId]]
                     /\ UNCHANGED resp
           ELSE IF body.restaurantId = NULL
                THEN resp' = respond(400, "Restaurant ID required for setup")
                     /\ UNCHANGED calls
                ELSE /\ calls' = [calls EXCEPT ![q] =
                                    [call EXCEPT !.pc = "getRestaurant",
                                                 !.restaurantId = body.restaurantId,
                                                 !.afterAdmin = hasAdmin(body.restaurantId)]]
                     /\ UNCHANGED resp
        /\ UNCHANGED <<formData, liveVars, sent, dbVars, sessions, reqs,
                       restaurants, bootstrapTokens>>

GetRestaurantDone(q) ==
    LET c == calls[q]
        restaurant == restaurants[c.restaurantId]
    IN  /\ c.pc = "getRestaurant"
        /\ IF ~restaurant.exists THEN Reply(q, 400, "Invalid restaurant ID")
           ELSE IF restaurant.setupComplete
           THEN Reply(q, 403, "Restaurant setup already complete. Please log in to create users.")
           ELSE IF c.username = "" THEN Reply(q, 400, "Invalid user data")
           ELSE /\ calls' = [calls EXCEPT ![q].pc = "getUserByUsername",
                                          ![q].isSetupMode = TRUE]
                /\ UNCHANGED resp
        /\ UNCHANGED <<formData, liveVars, sent, dbVars, sessions, reqs,
                       restaurants, bootstrapTokens>>

GetUserByUsernameDone(q) ==
    LET c == calls[q]
    IN  /\ c.pc = "getUserByUsername"
        /\ c.route # "POST /api/auth/bootstrap-reset"
        /\ IF getUserByUsername(c.username) # {}
           THEN Reply(q, 400, "Username already exists")
           ELSE /\ Await(q, IF c.route = "POST /api/auth/signup"
                            THEN "createRestaurant" ELSE "createUser")
                /\ UNCHANGED resp
        /\ UNCHANGED <<formData, liveVars, sent, dbVars, sessions, reqs,
                       restaurants, bootstrapTokens>>

CreateRestaurantDone(q) ==
    LET c == calls[q]
        id == FreshRestaurantId
    IN  /\ c.pc = "createRestaurant"
        /\ \E t \in RestaurantIds : ~restaurants[t].exists
        /\ restaurants' = [restaurants EXCEPT ![id] =
                              [exists |-> TRUE, setupComplete |-> FALSE, channels |-> FALSE]]
        /\ calls' = [calls EXCEPT ![q].pc = "createUser", ![q].restaurantId = id]
        /\ UNCHANGED <<formData, liveVars, sent, dbVars, sessions, reqs, resp,
                       bootstrapTokens>>

AfterSalary(c) ==
    IF c.isSetupMode /\ c.role = "admin" THEN "createDefaultChannels" ELSE "respond"

CreateUserDone(q) ==
    LET c == calls[q]
        id == FreshUserId
        row == User(c.username, c.password, c.restaurantId, c.role,
                    IF c.route = "POST /api/auth/it-signup" THEN IT_PERMISSIONS
                    ELSE IF c.role = "admin" THEN ADMIN_PERMISSIONS ELSE NoPermissions)
        out == createUser(users, id, row)
        next == IF c.route # "POST /api/users" THEN "respond"
                ELSE IF c.monthlySalary THEN "createSalary" ELSE AfterSalary(c)
    IN  /\ c.pc = "createUser"
        /\ \E u \in UserIds : ~users[u].exists
        /\ users' = out.table
        /\ IF ~out.ok
           THEN CASE c.route = "POST /api/auth/signup" ->
                       Reply(q, 500, "Failed to create account")
                  [] c.route = "POST /api/auth/it-signup" ->
                       Reply(q, 500, "Failed to create IT account")
                  [] OTHER -> Reply(q, 400, "Invalid user data")
           ELSE IF next = "respond" THEN Reply(q, 201, "")
           ELSE /\ calls' = [calls EXCEPT ![q].pc = next, ![q].userId = id,
                                          ![q].done = @ \cup {"user"}]
                /\ UNCHANGED resp
        /\ UNCHANGED <<formData, liveVars, sent, inventory, salaries, deliveryApps, orders,
                       payments, tickets, invoices, sessions, reqs, restaurants,
                       bootstrapTokens>>

CreateSalaryDone(q, ok) ==
    LET c == calls[q]
        id == FreshSalaryId
    IN  /\ c.pc = "createSalary"
        /\ ok => \E k \in SalaryIds : ~salaries[k].exists
        /\ salaries' = IF ok
                       THEN [salaries EXCEPT ![id] =
                               [exists |-> TRUE, restaurantId |-> c.restaurantId, amount |-> 1]]
                       ELSE salaries
        /\ IF ~ok THEN Await(q, "deleteUser") /\ UNCHANGED resp
           ELSE IF AfterSalary(c) = "respond" THEN Reply(q, 201, "")
           ELSE /\ calls' = [calls EXCEPT ![q].pc = AfterSalary(c),
                                          ![q].done = @ \cup {"salary"}]
                /\ UNCHANGED resp
        /\ UNCHANGED <<formData, liveVars, sent, users, inventory, deliveryApps, orders,
                       payments, tickets, invoices, sessions, reqs, restaurants,
                       bootstrapTokens>>

DeleteUserDone(q) ==
    LET c == calls[q]
    IN  /\ c.pc = "deleteUser"
        /\ users' = IF FindScoped(users, c.userId, c.restaurantId)
                    THEN [users EXCEPT ![c.userId] = NoUser]
                    ELSE users
        /\ Reply(q, 400, "Failed to create employee salary entry")
        /\ UNCHANGED <<formData, liveVars, sent, inventory, salaries, deliveryApps, orders,
                       payments, tickets, invoices, sessions, reqs, restaurants,
                       bootstrapTokens>>

CreateDefaultChannelsSwallowingFailure(q, ok) ==
    LET c == calls[q]
    IN  /\ c.pc = "createDefaultChannels"
        /\ restaurants' = IF ok THEN [restaurants EXCEPT ![c.restaurantId].channels = TRUE]
                          ELSE restaurants
        /\ calls' = [calls EXCEPT ![q].pc = "updateRestaurant",
                                  ![q].done = IF ok THEN @ \cup {"channels"} ELSE @]
        /\ UNCHANGED <<formData, liveVars, sent, dbVars, sessions, reqs, resp,
                       bootstrapTokens>>

CreateDefaultChannelsDone(q, ok) ==
    LET c == calls[q]
    IN  /\ c.pc = "createDefaultChannels"
        /\ restaurants' = IF ok THEN [restaurants EXCEPT ![c.restaurantId].channels = TRUE]
                          ELSE restaurants
        /\ IF ~ok THEN Reply(q, 400, "Invalid user data")
           ELSE /\ calls' = [calls EXCEPT ![q].pc = "updateRestaurant",
                                          ![q].done = @ \cup {"channels"}]
                /\ UNCHANGED resp
        /\ UNCHANGED <<formData, liveVars, sent, dbVars, sessions, reqs, bootstrapTokens>>

UpdateRestaurantDone(q) ==
    LET c == calls[q]
    IN  /\ c.pc = "updateRestaurant"
        /\ restaurants' = [restaurants EXCEPT ![c.restaurantId].setupComplete = TRUE]
        /\ Reply(q, 201, "")
        /\ UNCHANGED <<formData, liveVars, sent, dbVars, sessions, reqs, bootstrapTokens>>

(***************************************************************************)
(* Password recovery: the emergency bootstrap reset and forgot-password    *)
(***************************************************************************)
NewPasswords == {"newpw1", "newpw2", "abc"}

LongEnough(password) == password \in {"newpw1", "newpw2"}

getValidBootstrapToken(token) ==
    {k \in TokenIds : k = token /\ bootstrapTokens[k].exists /\ ~bootstrapTokens[k].consumed}

PostBootstrapReset(q, token, username, password) ==
    LET n == "POST /api/auth/bootstrap-reset"
        respond(status, error) ==
            [Response(n, "-", status, error, {}, TRUE) EXCEPT !.ids = {q}]
    IN  /\ calls[q].pc = "idle"
        /\ IF token = "" \/ username = "" \/ password = ""
           THEN resp' = respond(400, "Token, username, and password are required")
                /\ UNCHANGED calls
           ELSE IF ~LongEnough(password)
           THEN resp' = respond(400, "Password must be at least 6 characters long")
                /\ UNCHANGED calls
           ELSE /\ calls' = [calls EXCEPT ![q] =
                               [NoCall EXCEPT !.route = n, !.pc = "getValidBootstrapToken",
                                              !.token = token, !.username = username,
                                              !.password = password]]
                /\ UNCHANGED resp
        /\ UNCHANGED <<formData, liveVars, sent, dbVars, sessions, reqs,
                       restaurants, bootstrapTokens>>

GetValidBootstrapTokenDone(q) ==
    LET c == calls[q]
    IN  /\ c.pc = "getValidBootstrapToken"
        /\ IF getValidBootstrapToken(c.token) = {}
           THEN Reply(q, 401, "Invalid or already used reset token")
           ELSE Await(q, "getUserByUsername") /\ UNCHANGED resp
        /\ UNCHANGED <<formData, liveVars, sent, dbVars, sessions, reqs,
                       restaurants, bootstrapTokens>>

ResetGetUserDone(q) ==
    LET c == calls[q]
        found == getUserByUsername(c.username)
        uid == CHOOSE u \in found : TRUE
    IN  /\ c.pc = "getUserByUsername"
        /\ c.route = "POST /api/auth/bootstrap-reset"
        /\ IF found = {} THEN Reply(q, 404, "User not found")
           ELSE IF users[uid].role # "admin"
           THEN Reply(q, 403, "Can only reset admin accounts via bootstrap")
           ELSE /\ calls' = [calls EXCEPT ![q].pc = "updatePassword", ![q].userId = uid]
                /\ UNCHANGED resp
        /\ UNCHANGED <<formData, liveVars, sent, dbVars, sessions, reqs,
                       restaurants, bootstrapTokens>>

(* resets counts the password updates made under a token.                  *)
UpdatePasswordDone(q) ==
    LET c == calls[q]
    IN  /\ c.pc = "updatePassword"
        /\ users' = IF users[c.userId].exists
                    THEN [users EXCEPT ![c.userId].password = c.password]
                    ELSE users
        /\ bootstrapTokens' = [bootstrapTokens EXCEPT ![c.token].resets = @ + 1]
        /\ Await(q, "consumeBootstrapToken")
        /\ UNCHANGED <<formData, liveVars, sent, inventory, salaries, deliveryApps, orders,
                       payments, tickets, invoices, sessions, reqs, resp, restaurants>>

ConsumeBootstrapTokenDone(q) ==
    LET c == calls[q]
    IN  /\ c.pc = "consumeBootstrapToken"
        /\ bootstrapTokens' = [bootstrapTokens EXCEPT ![c.token].consumed = TRUE]
        /\ Reply(q, 200, "")
        /\ UNCHANGED <<formData, liveVars, sent, dbVars, sessions, reqs, restaurants>>

Emails == {EmailOf("alice"), EmailOf("bob"), EmailOf("nobody"), ""}

getUserByEmail(email) == {u \in UserIds : users[u].exists /\ users[u].email = email}

UniformMessage == "If an account with that email exists, we've sent a password reset link"

ForgotPasswordOutcomeRevealing(email, mailOk) ==
    IF email = "" THEN [status |-> 400, body |-> "Email is required"]
    ELSE IF getUserByEmail(email) = {}
    THEN [status |-> 404, body |-> "No account with that email"]
    ELSE [status |-> 200, body |-> UniformMessage]

(* The mailer's result is read only for a development log line.            *)
ForgotPasswordOutcome(email, mailOk) ==
    IF email = "" THEN [status |-> 400, body |-> "Email is required"]
    ELSE IF getUserByEmail(email) = {}
    THEN [status |-> 200, body |-> UniformMessage]
    ELSE [status |-> 200, body |-> UniformMessage]

ForgotPassword(email, mailOk) ==
    LET n == "POST /api/auth/forgot-password"
        out == ForgotPasswordOutcome(email, mailOk)
        found == getUserByEmail(email)
        uid == CHOOSE u \in found : TRUE
    IN  /\ resp' = [Response(n, "-", out.status, out.body, {}, TRUE) EXCEPT !.ids = {email}]
        /\ users' = IF email # "" /\ found # {}
                    THEN [users EXCEPT ![uid].resetToken = TRUE]
                    ELSE users
        /\ UNCHANGED <<auxVars, inventory, salaries, deliveryApps, orders, payments,
                       tickets, invoices, sessions, reqs>>

(***************************************************************************)
(* Sidebar filter                                                          *)
(***************************************************************************)
Item(testId, permission, restaurantOnly) ==
    [testId |-> testId, permission |-> permission, restaurantOnly |-> restaurantOnly]

allOperations ==
    { Item("pos", "pos", FALSE), Item("orders", "orders", FALSE),
      Item("kitchen", "kitchen", FALSE),
      Item("delivery-apps", "deliveryApps", TRUE) }

allManagement ==
    { Item("dashboard", "dashboard", FALSE), Item("inventory", "inventory", FALSE),
      Item("menu", "menu", FALSE), Item("recipes", "recipes", TRUE),
      Item("licenses", "licenses", FALSE), Item("customers", "customers", FALSE),
      Item("investors", "reports", FALSE), Item("branches", "branches", FALSE),
      Item("procurement", "procurement", FALSE) }

allAnalytics ==
    { Item("sales", "sales", FALSE), Item("financial", "reports", FALSE),
      Item("profitability", "reports", FALSE),
      Item("delivery-profitability", "reports", TRUE),
      Item("sales-comparison", "reports", FALSE),
      Item("forecasting", "reports", FALSE), Item("invoices", "reports", FALSE),
      Item("vat-reports", "reports", FALSE), Item("bills", "bills", FALSE) }

allSystem ==
    { Item("tutorial", "-", FALSE), Item("shop", "workingHours", FALSE),
      Item("profile", "-", FALSE), Item("chat", "-", FALSE),
      Item("support", "-", FALSE), Item("it-dashboard", "-", FALSE),
      Item("performance", "-", FALSE), Item("it-account-management", "-", FALSE),
      Item("settings", "settings", FALSE), Item("employees", "users", FALSE),
      Item("password-manager", "-", FALSE) }

SidebarItems == allOperations \cup allManagement \cup allAnalytics \cup allSystem

hasPermission(acct, key) == "view" \in normalizePermission(acct.permissions[key])

PermissionCheckNoBypass(item, acct) ==
    item.permission = "-" \/ hasPermission(acct, item.permission)

PermissionCheck(item, acct) ==
    IF item.testId = "settings"
    THEN isAdmin(acct) \/ hasPermission(acct, "settings")
    ELSE item.permission = "-" \/ isAdmin(acct) \/ hasPermission(acct, item.permission)

filterMenuItems(items, acct, businessType) ==
    {item \in items :
        IF acct.accountType = "it" THEN item.testId \in ITFeatureKeys
        ELSE IF item.testId \in ITFeatureKeys THEN FALSE
        ELSE IF item.restaurantOnly /\ businessType # "restaurant" THEN FALSE
        ELSE PermissionCheck(item, acct)}

RenderSidebar(s, businessType) ==
    /\ sessions[s].user
    /\ resp' = [Response("sidebar", s, 200, "",
                   {Row("menu", item.testId, "-") :
                       item \in filterMenuItems(SidebarItems, sessions[s], businessType)},
                   TRUE)
                EXCEPT !.ids = {businessType}]
    /\ UNCHANGED <<auxVars, dbVars, sessions, reqs>>


(***************************************************************************)
(* Employee form: the permission matrix of the create / edit dialog.  The  *)
(* form starts from the default employee permissions and is changed by the *)
(* two toggle handlers.                                                    *)
(***************************************************************************)
DefaultEmployeePermissionSets ==
    { NoPermissions,
      [f \in Features |-> Legacy("false")],
      [f \in Features |-> Legacy(IF f \in {"pos", "orders"} THEN "true" ELSE "false")],
      [f \in Features |-> Granular(TRUE, FALSE, FALSE, FALSE)] }

FormFeatures == {"pos", "inventory"}

GranularOf(p) ==
    Granular("view" \in normalizePermission(p), "add" \in normalizePermission(p),
             "edit" \in normalizePermission(p), "delete" \in normalizePermission(p))

FormOf(default) == [default |-> default, permissions |-> default]

setFormData(permission, newPerm) ==
    formData' = [formData EXCEPT !.permissions[permission] = newPerm]

togglePermissionActionNoCascade(permission, action) ==
    LET currentPerm == GranularOf(formData.permissions[permission])
        newPerm == [currentPerm EXCEPT ![action] = ~currentPerm[action]]
    IN  /\ setFormData(permission, newPerm)
        /\ resp' = UiEvent("togglePermissionAction", {permission, action})
        /\ UNCHANGED serverVars

togglePermissionAction(permission, action) ==
    LET currentPerm == GranularOf(formData.permissions[permission])
        flipped == [currentPerm EXCEPT ![action] = ~currentPerm[action]]
        viewOff == IF action = "view" /\ ~flipped.view
                   THEN [flipped EXCEPT !.add = FALSE, !.edit = FALSE, !.delete = FALSE]
                   ELSE flipped
        newPerm == IF action \in {"add", "edit", "delete"} /\ viewOff[action]
                   THEN [viewOff EXCEPT !.view = TRUE]
                   ELSE viewOff
    IN  /\ setFormData(permission, newPerm)
        /\ resp' = UiEvent("togglePermissionAction", {permission, action})
        /\ UNCHANGED serverVars

toggleAllActions(permission, enabled) ==
    LET newPerm == Granular(enabled, enabled, enabled, enabled)
    IN  /\ setFormData(permission, newPerm)
        /\ resp' = UiEvent("toggleAllActions", {permission})
        /\ UNCHANGED serverVars

resetForm ==
    /\ formData' = FormOf(formData.default)
    /\ resp' = UiEvent("resetForm", {})
    /\ UNCHANGED serverVars


(***************************************************************************)
(* Menu, recipes and the stock validator.  Quantities are in hundredths of *)
(* a unit, portions in quarters, so Q x quantity x portion stays integral. *)
(***************************************************************************)
Menu == {"burger", "slider", "tea", "bite", "wrap"}

Portions == {1, 2, 3, 4}

Portion(m) ==
    CASE m = "bite" -> 1 [] m = "slider" -> 2 [] m = "wrap" -> 3 [] OTHER -> 4

Recipe(m) ==
    IF m = "tea" THEN [i \in ItemIds |-> 0]
    ELSE [i \in ItemIds |-> CASE i = "i1" -> 20 [] i = "i3" -> 100 [] OTHER -> 0]

Line(m, q) == [id |-> m, quantity |-> q]

Drafts ==
    {<<Line("burger", q)>> : q \in 1..MaxQty}
      \cup {<<Line("slider", 1)>>, <<Line("tea", 1)>>,
            <<Line("burger", 1), Line("slider", 1)>>}

NoDraft == <<>>

RECURSIVE stockRequirementsUnscaled(_)
stockRequirementsUnscaled(items) ==
    IF items = <<>> THEN [i \in ItemIds |-> 0]
    ELSE LET l == Head(items)
             rest == stockRequirementsUnscaled(Tail(items))
         IN  [i \in ItemIds |-> rest[i] + Recipe(l.id)[i] * l.quantity]

RECURSIVE stockRequirements(_)
stockRequirements(items) ==
    IF items = <<>> THEN [i \in ItemIds |-> 0]
    ELSE LET l == Head(items)
             rest == stockRequirements(Tail(items))
         IN  [i \in ItemIds |->
                 rest[i] + (Recipe(l.id)[i] * l.quantity * Portion(l.id)) \div 4]

insufficientItems(items, stock) ==
    {[name |-> i, required |-> stockRequirements(items)[i],
      available |-> stock[i].quantity] :
        i \in {j \in ItemIds : /\ stockRequirements(items)[j] > 0
                               /\ stockRequirements(items)[j] > stock[j].quantity}}

prepareOrderStock(items, stock) ==
    [isValid |-> insufficientItems(items, stock) = {},
     stockRequirements |-> stockRequirements(items),
     insufficientItems |-> insufficientItems(items, stock)]

finalizeOrderWithInventory(stock, requirements, applied) ==
    [i \in ItemIds |->
        IF i \in applied
        THEN [stock[i] EXCEPT !.quantity = stock[i].quantity - requirements[i]]
        ELSE stock[i]]

Required(requirements) == {i \in ItemIds : requirements[i] > 0}


(***************************************************************************)
(* POST /api/orders.  Every storage and service call is a suspension       *)
(* point, so the handler is a sequence of steps per request r: validate,   *)
(* create the row, deduct, answer; or compensate after a failed deduction. *)
(***************************************************************************)
NoAmounts == [i \in ItemIds |-> 0]

IdleReq ==
    [pc |-> "idle", sess |-> "-", restaurantId |-> NULL, items |-> NoDraft,
     requirements |-> NoAmounts, applied |-> NoAmounts, status |-> 0,
     error |-> "", details |-> "", insufficient |-> {}, deleteFailed |-> FALSE]

NoOrder ==
    [exists |-> FALSE, restaurantId |-> NULL, items |-> NoDraft, status |-> "-",
     deducted |-> FALSE]

OrderId(r) == ToString(r)

Finish(r, status, error, details) ==
    [reqs EXCEPT ![r].pc = "done", ![r].status = status, ![r].error = error,
                 ![r].details = details]

OrderResponse(r, status, error, returned) ==
    [Response("POST /api/orders", reqs[r].sess, status, error, returned, TRUE)
       EXCEPT !.ids = {OrderId(r)}]

OrderRejected(r, s, g) ==
    /\ g.status # 0
    /\ reqs' = [reqs EXCEPT ![r].pc = "done", ![r].sess = s, ![r].status = g.status,
                            ![r].error = g.error]
    /\ resp' = [Rejected("POST /api/orders", s, g) EXCEPT !.ids = {OrderId(r)}]
    /\ UNCHANGED <<auxVars, dbVars, sessions>>

OrderConflictAfterCreate(r, s, items, prep) ==
    /\ ~prep.isValid
    /\ reqs' = [reqs EXCEPT ![r].pc = "done", ![r].sess = s,
                            ![r].restaurantId = sessions[s].restaurantId,
                            ![r].items = items, ![r].status = 409,
                            ![r].error = "Insufficient inventory",
                            ![r].insufficient = prep.insufficientItems]
    /\ resp' = [Response("POST /api/orders", s, 409, "Insufficient inventory", {}, TRUE)
                  EXCEPT !.ids = {OrderId(r)},
                         !.insufficient = prep.insufficientItems]
    /\ orders' = [orders EXCEPT ![OrderId(r)] =
                    [exists |-> TRUE, restaurantId |-> sessions[s].restaurantId,
                     items |-> items, status |-> "created", deducted |-> FALSE]]
    /\ UNCHANGED <<auxVars, users, inventory, salaries, deliveryApps, payments, tickets,
                   invoices, sessions>>

OrderConflict(r, s, items, prep) ==
    /\ ~prep.isValid
    /\ reqs' = [reqs EXCEPT ![r].pc = "done", ![r].sess = s,
                            ![r].restaurantId = sessions[s].restaurantId,
                            ![r].items = items, ![r].status = 409,
                            ![r].error = "Insufficient inventory",
                            ![r].insufficient = prep.insufficientItems]
    /\ resp' = [Response("POST /api/orders", s, 409, "Insufficient inventory", {}, TRUE)
                  EXCEPT !.ids = {OrderId(r)},
                         !.insufficient = prep.insufficientItems]
    /\ UNCHANGED <<auxVars, dbVars, sessions>>

OrderValidatedReserving(r, s, items, prep) ==
    /\ prep.isValid
    /\ reqs' = [reqs EXCEPT ![r].pc = "create", ![r].sess = s,
                            ![r].restaurantId = sessions[s].restaurantId,
                            ![r].items = items,
                            ![r].requirements = prep.stockRequirements]
    /\ inventory' = finalizeOrderWithInventory(inventory, prep.stockRequirements,
                                               Required(prep.stockRequirements))
    /\ UNCHANGED <<auxVars, users, salaries, deliveryApps, orders, payments, tickets,
                   invoices, sessions, resp>>

OrderValidated(r, s, items, prep) ==
    /\ prep.isValid
    /\ reqs' = [reqs EXCEPT ![r].pc = "create", ![r].sess = s,
                            ![r].restaurantId = sessions[s].restaurantId,
                            ![r].items = items,
                            ![r].requirements = prep.stockRequirements]
    /\ UNCHANGED <<auxVars, dbVars, sessions, resp>>

OrderPrepare(r, s, items) ==
    LET g == Guard("POST /api/orders", sessions[s])
        prep == prepareOrderStock(items, inventory)
    IN  /\ reqs[r].pc = "idle"
        /\ \A q \in ReqIds : q < r => reqs[q].pc # "idle"
        /\ \/ OrderRejected(r, s, g)
           \/ g.status = 0 /\ OrderConflict(r, s, items, prep)
           \/ g.status = 0 /\ OrderValidated(r, s, items, prep)

OrderCreate(r) ==
    /\ reqs[r].pc = "create"
    /\ orders' = [orders EXCEPT ![OrderId(r)] =
                    [exists |-> TRUE, restaurantId |-> reqs[r].restaurantId,
                     items |-> reqs[r].items, status |-> "created",
                     deducted |-> FALSE]]
    /\ reqs' = [reqs EXCEPT ![r].pc = "finalize"]
    /\ UNCHANGED <<auxVars, users, inventory, salaries, deliveryApps, payments, tickets,
                   invoices, sessions, resp>>

Deducted(before, after) ==
    [i \in ItemIds |-> before[i].quantity - after[i].quantity]

OrderFinalizeSkipped(r) ==
    /\ reqs[r].pc = "finalize"
    /\ orders' = [orders EXCEPT ![OrderId(r)].deducted = TRUE]
    /\ reqs' = [reqs EXCEPT ![r].pc = "notify"]
    /\ UNCHANGED <<auxVars, users, inventory, salaries, deliveryApps, payments, tickets,
                   invoices, sessions, resp>>

OrderFinalize(r) ==
    /\ reqs[r].pc = "finalize"
    /\ inventory' = finalizeOrderWithInventory(inventory, reqs[r].requirements,
                                               Required(reqs[r].requirements))
    /\ orders' = [orders EXCEPT ![OrderId(r)].deducted = TRUE]
    /\ reqs' = [reqs EXCEPT ![r].pc = "notify",
                            ![r].applied = Deducted(inventory, inventory')]
    /\ UNCHANGED <<auxVars, users, salaries, deliveryApps, payments, tickets, invoices,
                   sessions, resp>>

OrderFinalizeFail(r, applied) ==
    /\ reqs[r].pc = "finalize"
    /\ Required(reqs[r].requirements) # {}
    /\ applied \subseteq Required(reqs[r].requirements)
    /\ inventory' = finalizeOrderWithInventory(inventory, reqs[r].requirements, applied)
    /\ reqs' = [reqs EXCEPT ![r].pc = "compensate",
                            ![r].applied = Deducted(inventory, inventory'),
                            ![r].details = "deduction failed"]
    /\ UNCHANGED <<auxVars, users, salaries, deliveryApps, orders, payments, tickets,
                   invoices, sessions, resp>>

BranchIds == {"b1"}

getBranch(branchId, restaurantId) ==
    {[id |-> b, restaurantId |-> "T1", name |-> "Main"] :
        b \in {x \in BranchIds : x = branchId /\ restaurantId = "T1"}}

OrderNumber(id) == "ORD-" \o id

RECURSIVE join(_)
join(names) ==
    IF names = <<>> THEN ""
    ELSE IF Len(names) = 1 THEN Head(names)
    ELSE Head(names) \o ", " \o join(Tail(names))

itemsSummaryUntruncated(orderItems) ==
    IF Len(orderItems) > 0
    THEN join([k \in 1..Len(orderItems) |-> orderItems[k].id])
    ELSE "No items"

itemsSummary(orderItems) ==
    IF Len(orderItems) > 0
    THEN join([k \in 1..(IF Len(orderItems) < 3 THEN Len(orderItems) ELSE 3) |->
                 orderItems[k].id])
           \o (IF Len(orderItems) > 3 THEN "..." ELSE "")
    ELSE "No items"

OrderCreated(restaurantId, order, branchId, branch, summary) ==
    Event("order:created", restaurantId, NULL, order.id)
      @@ [orderId |-> order.id, orderNumber |-> order.orderNumber,
          status |-> order.status, branchId |-> branchId,
          branchName |-> IF branch = {} THEN NULL
                         ELSE (CHOOSE b \in branch : TRUE).name,
          itemsSummary |-> summary]

OrderBranchFail(r) ==
    /\ reqs[r].pc = "notify"
    /\ reqs' = [reqs EXCEPT ![r].pc = "compensate",
                            ![r].details = "branch lookup failed"]
    /\ UNCHANGED <<auxVars, dbVars, sessions, resp>>

OrderRespond(r, branchId) ==
    LET order == [id |-> OrderId(r), orderNumber |-> OrderNumber(OrderId(r)),
                  status |-> "created"]
        branch == IF branchId # NULL
                  THEN getBranch(branchId, reqs[r].restaurantId) ELSE {}
    IN  /\ reqs[r].pc = "notify"
        /\ sent' = broadcastNotification(
                       OrderCreated(reqs[r].restaurantId, order, branchId, branch,
                                    itemsSummary(reqs[r].items)))
        /\ reqs' = Finish(r, 201, "", "")
        /\ resp' = OrderResponse(r, 201, "",
                       {Row("order", OrderId(r), orders[OrderId(r)].restaurantId)})
        /\ UNCHANGED <<quietVars, dbVars, sessions>>

deleteOrder(table, id, restaurantId, ok) ==
    IF ok /\ FindScoped(table, id, restaurantId)
    THEN [table EXCEPT ![id] = NoOrder]
    ELSE table

OrderCompensateNoDelete(r, ok) ==
    /\ reqs[r].pc = "compensate"
    /\ reqs' = [Finish(r, 400, "Failed to create order", reqs[r].details)
                  EXCEPT ![r].deleteFailed = ~ok]
    /\ resp' = OrderResponse(r, 400, "Failed to create order", {})
    /\ UNCHANGED <<auxVars, dbVars, sessions>>

OrderCompensate(r, ok) ==
    /\ reqs[r].pc = "compensate"
    /\ orders' = deleteOrder(orders, OrderId(r), orders[OrderId(r)].restaurantId, ok)
    /\ reqs' = [Finish(r, 400, "Failed to create order", reqs[r].details)
                  EXCEPT ![r].deleteFailed = ~ok]
    /\ resp' = OrderResponse(r, 400, "Failed to create order", {})
    /\ UNCHANGED <<auxVars, users, inventory, salaries, deliveryApps, payments, tickets,
                   invoices, sessions>>


(***************************************************************************)
(* Seed data: tenant T1 (alice admin, bob employee), tenant T2 (carol      *)
(* admin), IT account ivan.  The third id of a table is never created.     *)
(***************************************************************************)
SeedInventory(owner3) ==
    [i \in ItemIds |->
        CASE i = "i1" -> [exists |-> TRUE, restaurantId |-> "T1", quantity |-> 30, sortOrder |-> 0]
          [] i = "i2" -> [exists |-> TRUE, restaurantId |-> "T2", quantity |-> 50, sortOrder |-> 0]
          [] OTHER    -> [exists |-> owner3 # NULL, restaurantId |-> owner3,
                          quantity |-> IF owner3 # NULL THEN 300 ELSE 0, sortOrder |-> 0]]

SeedSalaries ==
    [k \in SalaryIds |->
        CASE k = "sal1" -> [exists |-> TRUE, restaurantId |-> "T1", amount |-> 0]
          [] k = "sal2" -> [exists |-> TRUE, restaurantId |-> "T2", amount |-> 0]
          [] OTHER      -> [exists |-> FALSE, restaurantId |-> NULL, amount |-> 0]]

SeedRestaurants ==
    [t \in RestaurantIds |-> [exists |-> t \in Tenants, setupComplete |-> t \in Tenants, channels |-> t \in Tenants]]

SeedTokens == [k \in TokenIds |-> [exists |-> TRUE, consumed |-> FALSE, resets |-> 0]]

InitAccounts ==
    /\ restaurants = SeedRestaurants
    /\ bootstrapTokens = SeedTokens
    /\ calls = [q \in CallIds |-> NoCall]

SeedApps ==
    [a \in AppIds |->
        CASE a = "a1" -> [exists |-> TRUE, restaurantId |-> "T1", sortOrder |-> 0]
          [] a = "a2" -> [exists |-> TRUE, restaurantId |-> "T2", sortOrder |-> 0]
          [] OTHER    -> [exists |-> FALSE, restaurantId |-> NULL, sortOrder |-> 0]]

SeedOrders ==
    [o \in OrderIds |->
        IF o = "0"
        THEN [exists |-> TRUE, restaurantId |-> "T2", items |-> <<Line("tea", 1)>>,
              status |-> "created", deducted |-> TRUE]
        ELSE NoOrder]

SeedPayments ==
    [p \in PayIds |->
        CASE p = "pay1" -> [exists |-> TRUE, restaurantId |-> "T1", status |-> "paid",
                            dbStatus |-> "paid", orderId |-> "1"]
          [] p = "pay2" -> [exists |-> TRUE, restaurantId |-> "T2", status |-> "paid",
                            dbStatus |-> "paid", orderId |-> "0"]
          [] OTHER      -> [exists |-> FALSE, restaurantId |-> NULL, status |-> "-",
                            dbStatus |-> "-", orderId |-> NULL]]

SeedTickets == [t \in TicketIds |-> [exists |-> TRUE, restaurantId |-> "T2", status |-> "open"]]

SeedInvoices ==
    [v \in InvoiceIds |->
        IF v = "inv1" THEN Invoice("T2", "0", "qr", "/invoices/INV-0.pdf")
        ELSE NoInvoice]

ViewOnly == [f \in Features |-> Granular(TRUE, FALSE, FALSE, FALSE)]

InitData(p1, p2, owner3) ==
    /\ users = SeedUsers(p1, p2)
    /\ inventory = SeedInventory(owner3)
    /\ salaries = SeedSalaries
    /\ deliveryApps = SeedApps
    /\ orders = SeedOrders
    /\ payments = SeedPayments
    /\ tickets = SeedTickets
    /\ invoices = SeedInvoices
    /\ reqs = [r \in ReqIds |-> IdleReq]
    /\ resp = NoResponse

LoggedIn(uid) == SessionOf(uid, users[uid], validAccountType(users[uid]))

InitLive ==
    /\ sockets = [w \in SockIds |-> NoSocket]
    /\ wsClients = {}
    /\ conversations = [c \in ConvIds |-> NoConversation]
    /\ sent = NoBroadcast

InitAux ==
    /\ formData = FormOf(NoPermissions)
    /\ InitLive
    /\ InitAccounts

(***************************************************************************)
(* Specification of the order path: two T1 sessions place orders           *)
(***************************************************************************)
InitOrders ==
    /\ InitData(ADMIN_PERMISSIONS, ViewOnly, "T1")
    /\ InitAux
    /\ sessions = [s \in SessIds |-> IF s = "s1" THEN LoggedIn("u1") ELSE LoggedIn("u2")]

NextOrders ==
    \/ \E r \in ReqIds, s \in SessIds, items \in Drafts : OrderPrepare(r, s, items)
    \/ \E r \in ReqIds : OrderCreate(r)
    \/ \E r \in ReqIds : OrderFinalize(r)
    \/ \E r \in ReqIds, applied \in SUBSET ItemIds : OrderFinalizeFail(r, applied)
    \/ \E r \in ReqIds : OrderBranchFail(r)
    \/ \E r \in ReqIds, b \in BranchIds \cup {NULL} : OrderRespond(r, b)
    \/ \E r \in ReqIds, ok \in BOOLEAN : OrderCompensate(r, ok)

SpecOrders == InitOrders /\ [][NextOrders]_vars

(***************************************************************************)
(* Specification of the order notification: the order path with drafts of  *)
(* zero, one, three and four lines, an open T1 listener (w1), a T1         *)
(* listener whose socket is closing (w2) and an open T2 listener (w3).     *)
(***************************************************************************)
NotifyDrafts ==
    {<<>>, <<Line("burger", 1)>>, <<Line("burger", 2)>>,
     <<Line("tea", 1), Line("bite", 1), Line("slider", 1)>>,
     <<Line("tea", 1), Line("bite", 1), Line("slider", 1), Line("wrap", 1)>>}

InitNotify ==
    /\ InitData(ADMIN_PERMISSIONS, ViewOnly, "T1")
    /\ formData = FormOf(NoPermissions)
    /\ sockets = [w \in SockIds |->
                    CASE w = "w1" -> [state |-> "open", pending |-> FALSE,
                                      restaurantId |-> "T1", userId |-> "u1"]
                      [] w = "w2" -> [state |-> "closing", pending |-> FALSE,
                                      restaurantId |-> "T1", userId |-> "u2"]
                      [] OTHER    -> [state |-> "open", pending |-> FALSE,
                                      restaurantId |-> "T2", userId |-> "u3"]]
    /\ wsClients = {WSClient("w1", "T1", "u1", {}), WSClient("w2", "T1", "u2", {}),
                    WSClient("w3", "T2", "u3", {})}
    /\ conversations = [c \in ConvIds |-> NoConversation]
    /\ sent = NoBroadcast
    /\ InitAccounts
    /\ sessions = [s \in SessIds |-> IF s = "s1" THEN LoggedIn("u1") ELSE LoggedIn("u2")]

NextNotify ==
    \/ \E r \in ReqIds, s \in SessIds, items \in NotifyDrafts : OrderPrepare(r, s, items)
    \/ \E r \in ReqIds : OrderCreate(r)
    \/ \E r \in ReqIds : OrderFinalize(r)
    \/ \E r \in ReqIds, applied \in SUBSET ItemIds : OrderFinalizeFail(r, applied)
    \/ \E r \in ReqIds : OrderBranchFail(r)
    \/ \E r \in ReqIds, b \in BranchIds \cup {NULL} : OrderRespond(r, b)
    \/ \E r \in ReqIds, ok \in BOOLEAN : OrderCompensate(r, ok)

SpecNotify == InitNotify /\ [][NextNotify]_vars

(***************************************************************************)
(* Specification of the stock validator: requests for one menu item at     *)
(* each portion size are validated against the seeded stock.               *)
(***************************************************************************)
PortionDrafts == {<<Line(m, q)>> : m \in Menu, q \in 1..MaxQty}

InitPortion == InitOrders

NextPortion ==
    \E r \in ReqIds, s \in SessIds, items \in PortionDrafts : OrderPrepare(r, s, items)

SpecPortion == InitPortion /\ [][NextPortion]_vars

(***************************************************************************)
(* Specification of the tenant-scoped by-id routes: one session per tenant *)
(***************************************************************************)
InitTenant ==
    /\ InitData(ADMIN_PERMISSIONS, ViewOnly, NULL)
    /\ InitAux
    /\ sessions = [s \in SessIds |-> IF s = "s1" THEN LoggedIn("u1") ELSE LoggedIn("u2")]

NextTenant ==
    \/ \E s \in SessIds, id \in ItemIds : GetInventoryItem(s, id)
    \/ \E s \in SessIds, id \in ItemIds, q \in {0, 50} : PatchInventoryItem(s, id, q)
    \/ \E s \in SessIds, id \in ItemIds : DeleteInventoryItem(s, id)
    \/ \E s \in SessIds, id \in SalaryIds : GetSalary(s, id)
    \/ \E s \in SessIds, id \in SalaryIds, a \in {0, 1} : PatchSalary(s, id, a)
    \/ \E s \in SessIds, id \in SalaryIds : DeleteSalary(s, id)
    \/ \E s \in SessIds, id \in OrderIds : GetOrder(s, id)
    \/ \E s \in SessIds, id \in PayIds : GetPayment(s, id)
    \/ \E s \in SessIds, id \in PayIds : RefundPayment(s, id)
    \/ \E s \in SessIds, id \in TicketIds : GetTicket(s, id)

SpecTenant == InitTenant /\ [][NextTenant]_vars

(***************************************************************************)
(* Specification of the bulk sort routes                                   *)
(***************************************************************************)
NextSort ==
    \/ \E s \in SessIds, body \in Bodies(ItemIds) : PatchInventorySort(s, body)
    \/ \E s \in SessIds, body \in Bodies(AppIds) : PatchDeliveryAppsSort(s, body)
    \/ \E s \in SessIds, body \in Bodies({"i2"}) : PatchRecipesSort(s, body)
    \/ \E s \in SessIds, body \in Bodies({"i2"}) : PatchAddonsSortOrder(s, body)

InitSort ==
    /\ InitData(ADMIN_PERMISSIONS, ViewOnly, NULL)
    /\ InitAux
    /\ sessions = [s \in SessIds |-> IF s = "s1" THEN LoggedIn("u1") ELSE LoggedIn("u3")]

SpecSort == InitSort /\ [][NextSort]_vars

(***************************************************************************)
(* Specification of authentication: sessions start empty                   *)
(***************************************************************************)
InitAuth ==
    /\ \E p \in PermSets : InitData(p, p, NULL)
    /\ InitAux
    /\ sessions = [s \in SessIds |-> NoSession]

NextAuth ==
    \/ \E u \in Usernames, pw \in Passwords, t \in AccountTypes :
          Login("s1", u, pw, t)
    \/ Logout("s1")
    \/ WsUpgrade("s2", "w1")
    \/ \E s \in SessIds, b \in BusinessTypes : RenderSidebar(s, b)
    \/ \E s \in SessIds, id \in ItemIds : GetInventoryItem(s, id)
    \/ \E s \in SessIds, id \in SalaryIds : GetSalary(s, id)
    \/ \E s \in SessIds : GetITOrders(s)
    \/ \E s \in SessIds : PatchITOrder(s, "0", "completed")
    \/ \E s \in SessIds : RefundPayment(s, "pay2")
    \/ \E s \in SessIds, id \in TicketIds : GetTicket(s, id)
    \/ \E s \in SessIds, id \in TicketIds, st \in {"open", "in-progress"} :
          PatchTicket(s, id, st)
    \/ \E s \in SessIds, id \in InvoiceIds : GetPublicInvoice(s, id)

SpecAuth == InitAuth /\ [][NextAuth]_vars

(***************************************************************************)
(* Specification of the employee form                                      *)
(***************************************************************************)
InitForm ==
    /\ InitData(ADMIN_PERMISSIONS, ViewOnly, NULL)
    /\ sessions = [s \in SessIds |-> IF s = "s1" THEN LoggedIn("u1") ELSE NoSession]
    /\ \E d \in DefaultEmployeePermissionSets : formData = FormOf(d)
    /\ InitLive
    /\ InitAccounts

NextForm ==
    \/ \E f \in FormFeatures, a \in Actions : togglePermissionAction(f, a)
    \/ \E f \in FormFeatures, b \in BOOLEAN : toggleAllActions(f, b)
    \/ resetForm

SpecForm == InitForm /\ [][NextForm]_vars

(***************************************************************************)
(* Specification of the notification fan-out: alice and bob (tenant T1)    *)
(* connect, chat and update an order while a listener of tenant T2 (carol) *)
(* is connected.                                                           *)
(***************************************************************************)
LiveOrder ==
    [exists |-> TRUE, restaurantId |-> "T1", items |-> <<Line("tea", 1)>>,
     status |-> "created", deducted |-> TRUE]

InitListeners ==
    /\ sockets = [w \in SockIds |->
                    IF w = "w3"
                    THEN [state |-> "open", pending |-> FALSE,
                          restaurantId |-> "T2", userId |-> "u3"]
                    ELSE NoSocket]
    /\ wsClients = {WSClient("w3", "T2", "u3", {})}
    /\ conversations = [c \in ConvIds |-> NoConversation]
    /\ sent = NoBroadcast

InitChat ==
    /\ users = SeedUsers(ADMIN_PERMISSIONS, ViewOnly)
    /\ inventory = SeedInventory(NULL)
    /\ salaries = SeedSalaries
    /\ deliveryApps = SeedApps
    /\ orders = [SeedOrders EXCEPT !["1"] = LiveOrder]
    /\ payments = SeedPayments
    /\ tickets = SeedTickets
    /\ invoices = SeedInvoices
    /\ reqs = [r \in ReqIds |-> IdleReq]
    /\ resp = NoResponse
    /\ formData = FormOf(NoPermissions)
    /\ InitListeners
    /\ InitAccounts
    /\ sessions = [s \in SessIds |-> IF s = "s1" THEN LoggedIn("u1") ELSE LoggedIn("u2")]

NextChat ==
    \/ WsUpgrade("s1", "w1") \/ WsUpgrade("s2", "w2")
    \/ \E w \in SockIds, loaded \in BOOLEAN : WsRegister(w, loaded)
    \/ \E w \in {"w1", "w2"} : WsClosing(w)
    \/ \E w \in {"w1", "w2"} : WsClosed(w)
    \/ \E s \in SessIds, c \in ConvIds, name \in {"", "general"} : PostChannel(s, c, name)
    \/ \E s \in SessIds, c \in ConvIds, u \in {"u1", "u2", "u3"} : PostMember(s, c, u)
    \/ \E s \in SessIds, c \in ConvIds, content \in {"", "hi"} : PostMessage(s, c, content)
    \/ \E s \in SessIds : PatchOrder(s, "1", OrderPatch("Preparing", {}))

SpecChat == InitChat /\ [][NextChat]_vars

(***************************************************************************)
(* Specification of order updates: alice (T1 admin) and ivan (IT) update   *)
(* existing orders and the gateway calls back.                             *)
(***************************************************************************)
OrderStatuses == {"Preparing", "Completed", "Cancelled"}

OrderPatches ==
    {OrderPatch(st, it) : st \in OrderStatuses \cup {NULL},
                          it \in {{}, {<<Line("burger", 2)>>}}}

InitUpdate ==
    /\ users = SeedUsers(ADMIN_PERMISSIONS, ViewOnly)
    /\ inventory = SeedInventory(NULL)
    /\ salaries = SeedSalaries
    /\ deliveryApps = SeedApps
    /\ orders = [SeedOrders EXCEPT !["1"] = LiveOrder]
    /\ payments = SeedPayments
    /\ tickets = SeedTickets
    /\ invoices = SeedInvoices
    /\ reqs = [r \in ReqIds |-> IdleReq]
    /\ resp = NoResponse
    /\ InitAux
    /\ sessions = [s \in SessIds |-> IF s = "s1" THEN LoggedIn("u1") ELSE LoggedIn("u4")]

NextUpdate ==
    \/ \E s \in SessIds, id \in {"0", "1"}, body \in OrderPatches : PatchOrder(s, id, body)
    \/ \E s \in SessIds, id \in {"0", "1"}, st \in OrderStatuses : PatchITOrder(s, id, st)
    \/ \E id \in PayIds, signed \in BOOLEAN : MoyasarCallback(id, signed)
    \/ \E s \in SessIds : GetDashboard(s)

SpecUpdate == InitUpdate /\ [][NextUpdate]_vars

(***************************************************************************)
(* Specification of invoice generation: alice (T1) and carol (T2) request  *)
(* invoices for existing, foreign and missing orders.                      *)
(***************************************************************************)
InvoiceRoutes == {"POST /api/pos/generate-invoice", "POST /api/invoices/create-and-generate"}

InitInvoice ==
    /\ users = SeedUsers(ADMIN_PERMISSIONS, ViewOnly)
    /\ inventory = SeedInventory(NULL)
    /\ salaries = SeedSalaries
    /\ deliveryApps = SeedApps
    /\ orders = [SeedOrders EXCEPT !["1"] = LiveOrder]
    /\ payments = SeedPayments
    /\ tickets = SeedTickets
    /\ invoices = SeedInvoices
    /\ reqs = [r \in ReqIds |-> IdleReq]
    /\ resp = NoResponse
    /\ InitAux
    /\ sessions = [s \in SessIds |-> IF s = "s1" THEN LoggedIn("u1") ELSE LoggedIn("u3")]

NextInvoice ==
    \/ \E n \in InvoiceRoutes, s \in SessIds, orderId \in {NULL, "0", "1"}, pdfOk \in BOOLEAN :
          GenerateInvoice(n, s, orderId, pdfOk)
    \/ \E s \in SessIds, id \in InvoiceIds : GetPublicInvoice(s, id)

SpecInvoice == InitInvoice /\ [][NextInvoice]_vars

(***************************************************************************)
(* Specification of concurrent account creation: two requests in flight    *)
(* among signup, IT signup and alice's (T1 admin) user creation, and       *)
(* alice renaming bob.                                                     *)
(***************************************************************************)
InitSignup ==
    /\ users = SeedUsers(ADMIN_PERMISSIONS, ViewOnly)
    /\ inventory = SeedInventory(NULL)
    /\ salaries = SeedSalaries
    /\ deliveryApps = SeedApps
    /\ orders = SeedOrders
    /\ payments = SeedPayments
    /\ tickets = SeedTickets
    /\ invoices = SeedInvoices
    /\ reqs = [r \in ReqIds |-> IdleReq]
    /\ resp = NoResponse
    /\ InitAux
    /\ sessions = [s \in SessIds |-> IF s = "s1" THEN LoggedIn("u1") ELSE NoSession]

NextSignup ==
    \/ \E q \in CallIds, u \in {"dave", "alice"}, complete \in BOOLEAN :
          PostSignup(q, u, complete)
    \/ \E q \in CallIds, key \in {VALID_SECRET_KEY, "guess"} : PostITSignup(q, "dave", key)
    \/ \E q \in CallIds, s \in SessIds :
          PostUsers(q, s, UserBody("dave", "employee", NULL, FALSE))
    \/ \E q \in CallIds : GetUserByUsernameDone(q)
    \/ \E q \in CallIds : CreateRestaurantDone(q)
    \/ \E q \in CallIds : CreateUserDone(q)
    \/ \E name \in {"dave", "robert"} : PatchUser("s1", "u2", UserPatch({name}, {}))

SpecSignup == InitSignup /\ [][NextSignup]_vars

(***************************************************************************)
(* Specification of the first-admin setup: restaurant T3 exists with       *)
(* setupComplete false and no users; two requests in flight create users   *)
(* without a session (setup mode) or under alice's session.                *)
(***************************************************************************)
SetupBodies ==
    {UserBody("erin", role, restaurantId, monthlySalary) :
        role \in {"admin", "employee"}, restaurantId \in {NULL, "T1", "T3", "T4"},
        monthlySalary \in BOOLEAN}

InitSetup ==
    /\ users = SeedUsers(ADMIN_PERMISSIONS, ViewOnly)
    /\ inventory = SeedInventory(NULL)
    /\ salaries = SeedSalaries
    /\ deliveryApps = SeedApps
    /\ orders = SeedOrders
    /\ payments = SeedPayments
    /\ tickets = SeedTickets
    /\ invoices = SeedInvoices
    /\ reqs = [r \in ReqIds |-> IdleReq]
    /\ resp = NoResponse
    /\ formData = FormOf(NoPermissions)
    /\ InitLive
    /\ restaurants = [SeedRestaurants EXCEPT !["T3"].exists = TRUE]
    /\ bootstrapTokens = SeedTokens
    /\ calls = [q \in CallIds |-> NoCall]
    /\ sessions = [s \in SessIds |-> IF s = "s1" THEN LoggedIn("u1") ELSE NoSession]

NextSetup ==
    \/ \E q \in CallIds, s \in SessIds, body \in SetupBodies : PostUsers(q, s, body)
    \/ \E q \in CallIds : GetRestaurantDone(q)
    \/ \E q \in CallIds : GetUserByUsernameDone(q)
    \/ \E q \in CallIds : CreateUserDone(q)
    \/ \E q \in CallIds, ok \in BOOLEAN : CreateSalaryDone(q, ok)
    \/ \E q \in CallIds : DeleteUserDone(q)
    \/ \E q \in CallIds, ok \in BOOLEAN : CreateDefaultChannelsDone(q, ok)
    \/ \E q \in CallIds : UpdateRestaurantDone(q)

SpecSetup == InitSetup /\ [][NextSetup]_vars

(***************************************************************************)
(* Specification of unauthenticated account creation: restaurant T3 awaits *)
(* its setup, signup creates restaurant T4 with its admin, and requests    *)
(* without a session ask POST /api/users for users of T3 and T4.           *)
(***************************************************************************)
AdminBodies ==
    {UserBody(name, role, restaurantId, FALSE) :
        name \in {"erin", "mallory"}, role \in {"admin", "employee"},
        restaurantId \in {"T3", "T4"}}

InitAdmin ==
    /\ InitSetup

NextAdmin ==
    \/ \E q \in CallIds : PostSignup(q, "dave", TRUE)
    \/ \E q \in CallIds, body \in AdminBodies : PostUsers(q, "s2", body)
    \/ \E q \in CallIds : GetRestaurantDone(q)
    \/ \E q \in CallIds : GetUserByUsernameDone(q)
    \/ \E q \in CallIds : CreateRestaurantDone(q)
    \/ \E q \in CallIds : CreateUserDone(q)
    \/ \E q \in CallIds, ok \in BOOLEAN : CreateDefaultChannelsDone(q, ok)
    \/ \E q \in CallIds : UpdateRestaurantDone(q)

SpecAdmin == InitAdmin /\ [][NextAdmin]_vars

(***************************************************************************)
(* Specification of user updates: alice (T1 admin) on s1 and bob (T1       *)
(* employee) or carol (T2 admin) on s2 send PATCH /api/users/:id for users *)
(* of both tenants with bodies that always carry a role and may carry a    *)
(* restaurantId.                                                           *)
(***************************************************************************)
UserPatches ==
    {WithKeys(UserPatch(username, active), role, restaurantId) :
        username \in {{}, {"robert"}}, active \in {{}, {FALSE}, {TRUE}},
        role \in {{"admin"}, {"it"}}, restaurantId \in {{}, {"T2"}}}

InitUsers ==
    /\ InitData(ADMIN_PERMISSIONS, ViewOnly, NULL)
    /\ InitAux
    /\ sessions = [s \in SessIds |-> IF s = "s1" THEN LoggedIn("u1") ELSE LoggedIn("u2")]

NextUsers ==
    \/ \E s \in SessIds, id \in {"u1", "u2", "u3", "u5"}, body \in UserPatches :
          PatchUser(s, id, body)
    \/ \E u \in {"bob", "carol"} : Login("s2", u, "pw", "client")
    \/ Logout("s2")

SpecUsers == InitUsers /\ [][NextUsers]_vars

(***************************************************************************)
(* Specification of the support tickets: no ticket exists; alice (T1) or   *)
(* carol (T2) logs in on s1 as a client, ivan (IT) is logged in on s2;     *)
(* they create a ticket and ask for every status.                          *)
(***************************************************************************)
TicketStatuses == {"open", "in-progress", "resolved", "closed"}

InitTickets ==
    /\ users = SeedUsers(ADMIN_PERMISSIONS, ViewOnly)
    /\ inventory = SeedInventory(NULL)
    /\ salaries = SeedSalaries
    /\ deliveryApps = SeedApps
    /\ orders = SeedOrders
    /\ payments = SeedPayments
    /\ tickets = [t \in TicketIds |-> NoTicket]
    /\ invoices = SeedInvoices
    /\ reqs = [r \in ReqIds |-> IdleReq]
    /\ resp = NoResponse
    /\ InitAux
    /\ sessions = [s \in SessIds |-> IF s = "s1" THEN NoSession ELSE LoggedIn("u4")]

NextTickets ==
    \/ \E u \in {"alice", "carol"} : Login("s1", u, "pw", "client")
    \/ Logout("s1")
    \/ \E s \in SessIds, st \in TicketStatuses : PostTicket(s, st)
    \/ \E s \in SessIds, id \in TicketIds : GetTicket(s, id)
    \/ \E s \in SessIds, id \in TicketIds, st \in TicketStatuses \cup {NULL} :
          PatchTicket(s, id, st)

SpecTickets == InitTickets /\ [][NextTickets]_vars

(***************************************************************************)
(* Specification of the bootstrap reset: one unconsumed token, two         *)
(* requests in flight.                                                     *)
(***************************************************************************)
InitReset ==
    /\ InitSignup

NextReset ==
    \/ \E q \in CallIds, token \in {"tok1", "bogus", ""},
           username \in {"alice", "bob", "nobody"}, password \in NewPasswords :
          PostBootstrapReset(q, token, username, password)
    \/ \E q \in CallIds : GetValidBootstrapTokenDone(q)
    \/ \E q \in CallIds : ResetGetUserDone(q)
    \/ \E q \in CallIds : UpdatePasswordDone(q)
    \/ \E q \in CallIds : ConsumeBootstrapTokenDone(q)

SpecReset == InitReset /\ [][NextReset]_vars

(***************************************************************************)
(* Specification of login failures and forgot-password: alice deactivates  *)
(* and reactivates bob; anyone logs in or asks for a reset link.           *)
(***************************************************************************)
InitLogin ==
    /\ InitSignup

NextLogin ==
    \/ \E u \in Usernames, pw \in Passwords, t \in AccountTypes : Login("s2", u, pw, t)
    \/ \E active \in BOOLEAN : PatchUser("s1", "u2", UserPatch({}, {active}))
    \/ \E email \in Emails, mailOk \in BOOLEAN : ForgotPassword(email, mailOk)

SpecLogin == InitLogin /\ [][NextLogin]_vars

(***************************************************************************)
(* Specification of account disabling: alice (T1) is logged in on s1, ivan *)
(* (IT) on s2; ivan disables and re-enables accounts while alice keeps     *)
(* using her session, logs out and logs in again.                          *)
(***************************************************************************)
InitDisable ==
    /\ InitData(ADMIN_PERMISSIONS, ViewOnly, NULL)
    /\ InitAux
    /\ sessions = [s \in SessIds |-> IF s = "s1" THEN LoggedIn("u1") ELSE LoggedIn("u4")]

NextDisable ==
    \/ \E s \in SessIds, id \in {"u1", "u2", "u5"}, active \in {{}, {TRUE}, {FALSE}} :
          PatchAccountStatus(s, id, active)
    \/ \E u \in {"alice", "bob"}, pw \in {"pw", "bad"} : Login("s1", u, pw, "client")
    \/ Logout("s1")
    \/ \E s \in SessIds, id \in ItemIds : GetInventoryItem(s, id)
    \/ \E s \in SessIds, id \in SalaryIds : GetSalary(s, id)

SpecDisable == InitDisable /\ [][NextDisable]_vars


(***************************************************************************)
(* Properties of the order path (SpecOrders)                               *)
(***************************************************************************)
DeductionFailed(r) == reqs[r].pc = "done" /\ reqs[r].details = "deduction failed"

(* C1 as stated: once a request has completed, no order row exists whose   *)
(* inventory deduction was not applied.                                    *)
C1_NoOrderSurvivesWithoutDeduction ==
    \A r \in ReqIds :
        reqs[r].pc = "done" /\ orders[OrderId(r)].exists
            => orders[OrderId(r)].deducted

(* C1 amended: a request whose deduction failed is answered 400 with the   *)
(* original error; its order row is gone when the compensating delete      *)
(* succeeded, and a completed request leaves an undeducted row behind only *)
(* when that delete itself failed.                                         *)
C1_CompensatingDelete ==
    \A r \in ReqIds :
        /\ DeductionFailed(r) =>
              /\ reqs[r].status = 400
              /\ reqs[r].error = "Failed to create order"
              /\ ~reqs[r].deleteFailed => ~orders[OrderId(r)].exists
        /\ reqs[r].pc = "done" /\ orders[OrderId(r)].exists
              /\ ~orders[OrderId(r)].deducted
              => DeductionFailed(r) /\ reqs[r].deleteFailed

C1_Witness ==
    \E r \in ReqIds :
        /\ DeductionFailed(r)
        /\ ~reqs[r].deleteFailed
        /\ ~orders[OrderId(r)].exists
        /\ resp.status = 400 /\ resp.ids = {OrderId(r)}

C2_Step ==
    \A r \in ReqIds :
        reqs[r].pc = "idle" /\ reqs'[r].status = 409 =>
            /\ orders' = orders
            /\ inventory' = inventory
            /\ resp'.status = 409
            /\ resp'.error = "Insufficient inventory"
            /\ resp'.insufficient # {}
            /\ resp'.insufficient = insufficientItems(reqs'[r].items, inventory')

(* C2: a request rejected for insufficient stock is answered 409 with the  *)
(* insufficientItems list, creates no order row and changes no inventory   *)
(* quantity, and the list it carries is the one the validator yields for   *)
(* the same items in the state the request leaves behind.                  *)
C2_ConflictChangesNothing == [][C2_Step]_vars

C2_Witness ==
    /\ MaxReqs >= 2
    /\ reqs[1].status = 409 /\ reqs[2].status = 409
    /\ reqs[1].items = <<Line("burger", 2)>>
    /\ reqs[2].items = reqs[1].items
    /\ reqs[2].insufficient = reqs[1].insufficient
    /\ resp.insufficient = {[name |-> "i1", required |-> 40, available |-> 30]}
    /\ \A o \in OrderIds : o # "0" => ~orders[o].exists

RECURSIVE TotalApplied(_, _)
TotalApplied(R, i) ==
    IF R = {} THEN 0
    ELSE LET r == CHOOSE x \in R : TRUE
         IN  reqs[r].applied[i] + TotalApplied(R \ {r}, i)

(* C4: a request answered 201 has deducted from every inventory item       *)
(* exactly the requirement the validator computed for its items, once, and *)
(* inventory changes in no other way: each quantity is the seeded one      *)
(* minus what the requests have deducted.                                  *)
C4_ExactDeduction ==
    /\ \A r \in ReqIds :
          reqs[r].status = 201 => reqs[r].applied = stockRequirements(reqs[r].items)
    /\ \A i \in ItemIds :
          inventory[i] = [SeedInventory("T1")[i] EXCEPT
                            !.quantity = @ - TotalApplied(ReqIds, i)]

C4_Witness ==
    \E r \in ReqIds :
        /\ reqs[r].status = 201
        /\ reqs[r].items = <<Line("burger", 1)>>
        /\ inventory["i1"].quantity = 10
        /\ inventory["i3"].quantity = 200
        /\ inventory["i2"].quantity = 50


(***************************************************************************)
(* Properties of the tenant-scoped routes (SpecTenant, SpecSort)           *)
(***************************************************************************)
ForeignRowsKept(table, after, t) ==
    \A id \in DOMAIN table :
        table[id].exists /\ table[id].restaurantId # t => after[id] = table[id]

C3_Step ==
    LET t == sessions[resp'.sess].restaurantId
    IN  resp'.sess \in SessIds /\ t \in Tenants =>
          /\ \A row \in resp'.returned : row.restaurantId = t
          /\ ForeignRowsKept(inventory, inventory', t)
          /\ ForeignRowsKept(salaries, salaries', t)
          /\ ForeignRowsKept(deliveryApps, deliveryApps', t)
          /\ ForeignRowsKept(orders, orders', t)
          /\ ForeignRowsKept(payments, payments', t)
          /\ ForeignRowsKept(tickets, tickets', t)
          /\ ForeignRowsKept(invoices, invoices', t)

(* C3 as stated: no request made with a session of tenant T1 returns,      *)
(* modifies or deletes a row whose restaurantId is another tenant's.       *)
C3_TenantIsolation == [][C3_Step]_vars

Body(r) == [status |-> r.status, error |-> r.error, returned |-> r.returned]

Foreign(table, s) ==
    {id \in DOMAIN table :
        table[id].exists /\ table[id].restaurantId # sessions[s].restaurantId}

Absent(table) == {id \in DOMAIN table : ~table[id].exists}

(* C6 as stated: every by-id endpoint answers a caller with the same 404   *)
(* (status and body) for an id owned by another tenant as for an id that   *)
(* does not exist.                                                         *)
C6_ForeignLooksAbsent ==
    \A s \in SessIds :
        sessions[s].restaurantId \in Tenants =>
          /\ \A x \in Foreign(inventory, s), y \in Absent(inventory) :
                /\ Body(GetInventoryItemResp(s, x)) = Body(GetInventoryItemResp(s, y))
                /\ Body(PatchInventoryItemResp(s, x)) = Body(PatchInventoryItemResp(s, y))
                /\ Body(DeleteInventoryItemResp(s, x)) = Body(DeleteInventoryItemResp(s, y))
                /\ GetInventoryItemResp(s, x).status = 404
          /\ \A x \in Foreign(salaries, s), y \in Absent(salaries) :
                /\ Body(GetSalaryResp(s, x)) = Body(GetSalaryResp(s, y))
                /\ Body(PatchSalaryResp(s, x)) = Body(PatchSalaryResp(s, y))
                /\ Body(DeleteSalaryResp(s, x)) = Body(DeleteSalaryResp(s, y))
          /\ \A x \in Foreign(orders, s), y \in Absent(orders) :
                Body(GetOrderResp(s, x)) = Body(GetOrderResp(s, y))
          /\ \A x \in Foreign(payments, s), y \in Absent(payments) :
                /\ Body(GetPaymentResp(s, x)) = Body(GetPaymentResp(s, y))
                /\ GetPaymentResp(s, x).status = 404

SortRoutes == {"PATCH /api/inventory/sort", "PATCH /api/delivery-apps/sort"}

ShadowingRoutes == {"PATCH /api/recipes/:id", "PATCH /api/addons/:id"}

SortTable(n) == IF n = "PATCH /api/inventory/sort" THEN inventory ELSE deliveryApps

C5_Step ==
    LET n == resp'.route
        t == sessions[resp'.sess].restaurantId
    IN  /\ n \in SortRoutes =>
              /\ (\E id \in resp'.ids : ~FindScoped(SortTable(n), id, t)) =>
                    /\ resp'.status \in {401, 403}
                    /\ inventory' = inventory
                    /\ deliveryApps' = deliveryApps
              /\ ForeignRowsKept(inventory, inventory', t)
              /\ ForeignRowsKept(deliveryApps, deliveryApps', t)
        /\ n \in ShadowingRoutes =>
              /\ resp'.status \in {400, 401, 403, 404}
              /\ UNCHANGED dbVars

ITRoutes == {"GET /api/it/orders", "PATCH /api/it/orders/:id"}

CrossTenantTicketRoutes == {"GET /api/tickets/:id", "PATCH /api/tickets/:id"}

ClientOnlyRoutes ==
    (RouteNames \ (ITRoutes \cup CrossTenantTicketRoutes)) \ {"GET /public/invoice/:id"}

C7_Step ==
    LET n == resp'.route
        sess == sessions[resp'.sess]
    IN  resp'.sess \in SessIds /\ sess.user =>
          /\ sess.restaurantId = NULL /\ n \in ClientOnlyRoutes =>
                /\ resp'.status = 403
                /\ resp'.returned = {}
                /\ UNCHANGED dbVars
          /\ sess.restaurantId # NULL /\ n \in ITRoutes =>
                /\ resp'.status = 403
                /\ resp'.returned = {}
                /\ UNCHANGED dbVars
          /\ n = "sidebar" =>
                \A row \in resp'.returned :
                    (row.id \in ITFeatureKeys) <=> (sess.restaurantId = NULL)

(* C7 as stated: an account without restaurantId is denied every           *)
(* client-only route and reaches tenant rows only through the cross-tenant *)
(* endpoints; an account with a restaurantId is denied every IT route and  *)
(* never sees the IT pages.                                                *)
C7_AccountTypesConfined == [][C7_Step]_vars

C8_Step ==
    \A s \in SessIds :
        sessions'[s] # sessions[s] =>
            /\ resp'.sess = s
            /\ resp'.route \in {"POST /api/auth/login", "POST /api/auth/logout"}

C8_Derived ==
    /\ \A s \in SessIds :
          sessions[s].user =>
              sessions[s].accountType =
                  (IF users[sessions[s].id].restaurantId = NULL THEN "it" ELSE "client")
    /\ \A u \in Usernames, pw \in Passwords, t1 \in AccountTypes, t2 \in AccountTypes :
          LoginOutcome(u, pw, t1) = LoginOutcome(u, pw, t2)

(* C8: a session's accountType is "it" exactly when the stored account has *)
(* no restaurantId, two logins that differ only in the accountType of the  *)
(* request body establish the same session, and only a login or logout of  *)
(* that session changes it.                                                *)
C8_AccountTypeFromStoredAccount == []C8_Derived /\ [][C8_Step]_vars

C8_Witness ==
    /\ resp.route = "POST /api/auth/login"
    /\ resp.status = 200
    /\ resp.ids = {"it"}
    /\ sessions["s1"].id = "u1"
    /\ sessions["s1"].accountType = "client"
    /\ resp.accountType = "client"

GuardedRoutes ==
    {n \in RouteNames : Routes[n].chain # <<>> /\ Head(Routes[n].chain) = "requireAuth"}
      \cup {"UPGRADE /ws/notifications"}

FailsClosed(routes) ==
    resp'.sess \in SessIds /\ resp'.route \in routes /\ ~sessions[resp'.sess].user =>
        /\ resp'.status = 401
        /\ ~resp'.ran
        /\ resp'.returned = {}
        /\ UNCHANGED <<dbVars, sessions>>

(* C9 as stated: every route that reads or mutates tenant data rejects a   *)
(* request without a session user with 401 before the handler runs.        *)
C9_EveryTenantRouteFailsClosed ==
    [][FailsClosed(RouteNames \cup {"UPGRADE /ws/notifications"})]_vars

(* C9 amended: every route registered behind requireAuth, and the          *)
(* WebSocket upgrade, rejects a request without a session user with 401    *)
(* before the handler runs, returning no row and changing nothing.         *)
C9_GuardedRoutesFailClosed == [][FailsClosed(GuardedRoutes)]_vars

C9_Witness ==
    /\ resp.route = "POST /api/moyasar/refund/:paymentId"
    /\ resp.sess = "s2"
    /\ ~sessions["s2"].user
    /\ resp.status = 401
    /\ ~resp.ran
    /\ payments["pay2"].status = "paid"

ClientAdmin(acct) == acct.user /\ acct.restaurantId # NULL /\ acct.role = "admin"

(* C10: for a session of an admin account with a restaurantId, the         *)
(* permission middleware passes every feature key and method, checkAccess  *)
(* allows every action and the sidebar's permission check passes every     *)
(* item, whatever permission set the account stores.                       *)
C10_AdminBypass ==
    \A s \in SessIds :
        ClientAdmin(sessions[s]) =>
          /\ \A f \in Features, a \in Actions : checkAccess(sessions[s], f, a)
          /\ \A f \in Features, m \in Methods :
                requirePermission(sessions[s], f, m) = Pass
          /\ \A item \in SidebarItems : PermissionCheck(item, sessions[s])
          /\ \A b \in BusinessTypes :
                filterMenuItems(SidebarItems, sessions[s], b) =
                    {item \in SidebarItems :
                        /\ item.testId \notin ITFeatureKeys
                        /\ item.restaurantOnly => b = "restaurant"}

C10_Witness ==
    /\ ClientAdmin(sessions["s1"])
    /\ sessions["s1"].permissions = NoPermissions
    /\ resp.route = "sidebar"
    /\ resp.ids = {"factory"}
    /\ Row("menu", "inventory", "-") \in resp.returned
    /\ Row("menu", "recipes", "-") \notin resp.returned


(***************************************************************************)
(* Properties of the employee form (SpecForm)                              *)
(***************************************************************************)
Enabled(f) == normalizePermission(formData.permissions[f])

C11_Step ==
    \A f \in Features, a \in Actions :
        resp'.route = "togglePermissionAction" /\ resp'.ids = {f, a} =>
            /\ a # "view" /\ a \notin Enabled(f) =>
                  (a \in Enabled(f))' /\ ("view" \in Enabled(f))'
            /\ a = "view" /\ "view" \in Enabled(f) => (Enabled(f))' = {}
            /\ \A g \in Features \ {f} : (Enabled(g))' = Enabled(g)

C11_Monotone ==
    \A f \in Features :
        Enabled(f) \cap {"add", "edit", "delete"} # {} => "view" \in Enabled(f)

(* C11: in every state the form reaches from the default employee          *)
(* permissions by the two toggle handlers, a feature with add, edit or     *)
(* delete enabled has view enabled; a toggle that enables add, edit or     *)
(* delete enables view, and a toggle that disables view disables all four. *)
C11_PermissionMonotonicity == []C11_Monotone /\ [][C11_Step]_vars

C11_Witness ==
    /\ resp.route = "togglePermissionAction"
    /\ resp.ids = {"inventory", "edit"}
    /\ formData.default["inventory"] = Legacy("false")
    /\ formData.permissions["inventory"] = Granular(TRUE, FALSE, TRUE, FALSE)
    /\ formData.permissions["pos"] = Granular(FALSE, FALSE, FALSE, FALSE)


(***************************************************************************)
(* Properties of the notification fan-out (SpecChat)                       *)
(***************************************************************************)
BroadcastRoutes ==
    {"POST /api/chat/conversations/:id/messages", "PATCH /api/orders/:id",
     "PATCH /api/it/orders/:id", "POST /api/orders"}

Emitted ==
    \/ sent' # sent
    \/ resp'.route \in BroadcastRoutes /\ resp'.status \in {200, 201}

Member(c, event) ==
    /\ event.conversationId \in ConvIds
    /\ conversations[event.conversationId].exists
    /\ conversations[event.conversationId].restaurantId = event.restaurantId
    /\ c.userId \in conversations[event.conversationId].members

Addressee(c, event) ==
    /\ c.restaurantId = event.restaurantId
    /\ sockets[c.socket].state = "open"
    /\ event.type = "chat:message" => Member(c, event)

C12_Step ==
    Emitted =>
        /\ resp'.route \in BroadcastRoutes
        /\ sent'.event.restaurantId \in Tenants
        /\ \A w \in sent'.to :
              \E c \in wsClients : c.socket = w /\ Addressee(c, sent'.event)

(* C12: a broadcast writes the event only to sockets of registered         *)
(* listeners whose restaurantId is the event's and whose socket is open,   *)
(* and a chat:message only to those whose user is a member of the event's  *)
(* conversation; nothing is delivered outside a broadcasting request.      *)
C12_FanOutSound == [][C12_Step]_vars

C12_Witness ==
    /\ sent.event = Event("chat:message", "T1", "c1", "u1")
    /\ sent.to = {"w1"}
    /\ WSClient("w1", "T1", "u1", {"c1"}) \in wsClients
    /\ WSClient("w2", "T1", "u2", {}) \in wsClients
    /\ WSClient("w3", "T2", "u3", {}) \in wsClients
    /\ \A w \in SockIds : sockets[w].state = "open"
    /\ conversations["c1"].members = {"u1"}

C13_Step ==
    Emitted =>
        \A c \in wsClients : Addressee(c, sent'.event) => c.socket \in sent'.to

(* C13 as stated: when an event is broadcast, every connected listener of  *)
(* the event's tenant receives it, and a chat:message reaches every        *)
(* connected listener whose user is a member of the conversation at the    *)
(* time of the broadcast.                                                  *)
C13_FanOutComplete == [][C13_Step]_vars


(***************************************************************************)
(* Properties of order updates (SpecUpdate)                                *)
(***************************************************************************)
Terminal == {"Completed", "Cancelled"}

C14_Step ==
    /\ \A o \in OrderIds :
          orders[o].exists /\ orders[o].status \in Terminal =>
              orders'[o].status = orders[o].status
    /\ resp'.route = "GET /api/analytics/dashboard" =>
          \A row \in resp'.returned : orders[row.id].status \notin Terminal

(* C14 as stated: once an order's status is Completed or Cancelled, no     *)
(* client update, IT update or payment callback changes that status, and   *)
(* the dashboard never counts such an order as active.                     *)
C14_TerminalStatuses == [][C14_Step]_vars

C15_Step ==
    \A o \in OrderIds :
        orders[o].exists /\ orders'[o].exists => orders'[o].items = orders[o].items

(* C15 as stated: no update request on an existing order changes the       *)
(* order's items, whatever the request body contains.                      *)
C15_ItemsImmutable == [][C15_Step]_vars


(***************************************************************************)
(* Properties of invoice generation (SpecInvoice)                          *)
(***************************************************************************)
InvoicesOf(orderId) ==
    {v \in InvoiceIds : invoices[v].exists /\ invoices[v].orderId = orderId}

C16_OnePerOrder == \A o \in OrderIds : Cardinality(InvoicesOf(o)) <= 1

C16_Step ==
    \A v \in InvoiceIds :
        invoices[v].exists =>
            invoices'[v] = [invoices[v] EXCEPT !.qrCode = invoices'[v].qrCode,
                                               !.pdfPath = invoices'[v].pdfPath]

(* C16 as stated: after any sequence of invoice-generation requests at     *)
(* most one invoice row references a given order, and an existing invoice  *)
(* row changes only in its QR code and PDF path.                           *)
C16_InvoiceOncePerOrder == []C16_OnePerOrder /\ [][C16_Step]_vars


SetupSteps(c) ==
    {"user", "channels"} \cup (IF c.monthlySalary THEN {"salary"} ELSE {})

Failed(q) ==
    /\ calls[q].route = "POST /api/users"
    /\ calls'[q] = NoCall
    /\ resp'.ids = {q}
    /\ resp'.status >= 400

C19_Step ==
    /\ \A t \in RestaurantIds :
          ~restaurants[t].setupComplete /\ restaurants'[t].setupComplete =>
              \E q \in CallIds :
                  /\ calls[q].pc = "updateRestaurant"
                  /\ calls[q].restaurantId = t
                  /\ calls[q].role = "admin"
                  /\ calls[q].done = SetupSteps(calls[q])
                  /\ restaurants[t].channels
    /\ \A q \in CallIds : Failed(q) => restaurants' = restaurants

(* C19: a restaurant's setupComplete flag turns from false to true only in *)
(* the last step of a first-admin creation whose user row, salary entry    *)
(* (when requested) and default channels all succeeded, and a request in   *)
(* which one of these steps fails leaves the flag as it was.               *)
C19_SetupTransitionLast == [][C19_Step]_vars

(* A setup request with a salary ran to its end and completed T3.          *)
C19_Witness ==
    /\ restaurants["T3"].setupComplete
    /\ restaurants["T3"].channels
    /\ resp.route = "POST /api/users" /\ resp.status = 201
    /\ \E u \in UserIds : FindScoped(users, u, "T3") /\ users[u].role = "admin"
    /\ \E k \in SalaryIds : FindScoped(salaries, k, "T3")


(***************************************************************************)
(* Properties of password recovery and login (SpecReset, SpecLogin)        *)
(***************************************************************************)
(* C18 as stated: across any interleaving of bootstrap-reset requests that *)
(* present the same token, at most one request changes a password.         *)
C18_TokenSingleUse == \A k \in TokenIds : bootstrapTokens[k].resets <= 1

LoginFailure(username, password) ==
    LET found == getUserByUsername(username)
    IN  \/ found = {}
        \/ \E u \in found : ~users[u].active \/ users[u].password # password

C20_ForgotUniform ==
    \A e1, e2 \in Emails \ {""}, m1, m2 \in BOOLEAN :
        ForgotPasswordOutcome(e1, m1) = ForgotPasswordOutcome(e2, m2)

C20_LoginUniform ==
    \A u \in Usernames \ {""}, pw \in Passwords \ {""}, t \in AccountTypes :
        LoginFailure(u, pw) =>
            /\ LoginOutcome(u, pw, t).status = 401
            /\ LoginOutcome(u, pw, t).error = "Invalid credentials"
            /\ LoginOutcome(u, pw, t).session = NoSession

Validated(r) == reqs[r].pc = "create" /\ Len(reqs[r].items) = 1

Disabled(sess) == sess.user /\ ~users[sess.id].active

C22_Step ==
    /\ resp'.route = "POST /api/auth/login" /\ resp'.status = 200 =>
          users[sessions'[resp'.sess].id].active
    /\ resp'.route \in {"GET /api/inventory/:id", "GET /api/shop/salaries/:id"}
          /\ Disabled(sessions[resp'.sess]) =>
          resp'.status = 401 /\ resp'.returned = {}

(* C22 as stated: while an account's active flag is false its logins are   *)
(* rejected, and so is every request that carries a session the account    *)
(* established before it was disabled.                                     *)
C22_DisabledHasNoAccess == [][C22_Step]_vars

(***************************************************************************)
(* C23.  The order placement race is reachable.  Validation reads the      *)
(* stock and reserves nothing: the step that validates a request and the   *)
(* step that creates its row leave every inventory quantity unchanged, and *)
(* a request is validated whenever its own requirements fit the stock read *)
(* at that step.  Two requests of one tenant can therefore both be         *)
(* validated and both have their rows created against stock that covers    *)
(* only one of them; C23_Race is that state.                               *)
(***************************************************************************)
Fits(requirements, stock) ==
    \A i \in ItemIds : requirements[i] > 0 => requirements[i] <= stock[i].quantity

C23_Step ==
    \A r \in ReqIds :
        /\ (reqs[r].pc = "idle" /\ reqs'[r].pc = "create") =>
              /\ inventory' = inventory
              /\ orders' = orders
              /\ reqs'[r].requirements = stockRequirements(reqs'[r].items)
              /\ Fits(reqs'[r].requirements, inventory)
        /\ (reqs[r].pc = "idle" /\ reqs'[r].status = 409) =>
              ~Fits(stockRequirements(reqs'[r].items), inventory)
        /\ (reqs[r].pc = "create" /\ reqs'[r].pc = "finalize") =>
              /\ inventory' = inventory
              /\ orders'[OrderId(r)].exists

C23_ValidationReservesNothing == [][C23_Step]_vars

C23_Race ==
    \E r1, r2 \in ReqIds :
        /\ r1 # r2
        /\ reqs[r1].pc = "finalize" /\ reqs[r2].pc = "finalize"
        /\ reqs[r1].restaurantId = "T1" /\ reqs[r2].restaurantId = "T1"
        /\ orders[OrderId(r1)].exists /\ orders[OrderId(r2)].exists
        /\ inventory = SeedInventory("T1")
        /\ Fits(reqs[r1].requirements, inventory)
        /\ Fits(reqs[r2].requirements, inventory)
        /\ reqs[r1].requirements["i1"] + reqs[r2].requirements["i1"]
              > inventory["i1"].quantity



(***************************************************************************)
(* C24.  An order:created event is emitted only on success.  Every         *)
(* broadcast of the order path is made by the step that answers 201, for   *)
(* a request whose order row exists and whose deduction has been applied   *)
(* in full; it goes to the open sockets of the order's tenant only and     *)
(* carries the order id, number, status, branch and a summary of the first *)
(* three item names followed by an ellipsis when there are more.  A        *)
(* request answered 409 or 400 broadcasts nothing, a finished request      *)
(* takes no further step, and the order named by the last event exists     *)
(* and belongs to a request answered 201.                                  *)
(***************************************************************************)
FirstThree(items) ==
    [k \in 1..(IF Len(items) < 3 THEN Len(items) ELSE 3) |-> items[k].id]

C24_Payload(r, event) ==
    /\ event.type = "order:created"
    /\ event.restaurantId = orders[OrderId(r)].restaurantId
    /\ event.orderId = OrderId(r)
    /\ event.orderNumber = OrderNumber(OrderId(r))
    /\ event.status = orders[OrderId(r)].status
    /\ event.branchId \in BranchIds \cup {NULL}
    /\ event.branchName = (IF event.branchId = NULL THEN NULL ELSE "Main")
    /\ event.itemsSummary =
          (IF reqs[r].items = <<>> THEN "No items"
           ELSE join(FirstThree(reqs[r].items))
                  \o (IF Len(reqs[r].items) > 3 THEN "..." ELSE ""))

C24_Step ==
    /\ sent' # sent =>
          \E r \in ReqIds :
              /\ reqs[r].pc = "notify"
              /\ reqs'[r].pc = "done" /\ reqs'[r].status = 201
              /\ resp'.status = 201 /\ resp'.ids = {OrderId(r)}
              /\ orders[OrderId(r)].exists /\ orders[OrderId(r)].deducted
              /\ orders' = orders /\ inventory' = inventory
              /\ reqs[r].applied = stockRequirements(reqs[r].items)
              /\ C24_Payload(r, sent'.event)
              /\ sent'.to = {w \in SockIds :
                               /\ sockets[w].state = "open"
                               /\ \E c \in wsClients :
                                     c.socket = w /\ c.restaurantId = reqs[r].restaurantId}
    /\ \A r \in ReqIds :
          /\ (reqs[r].pc # "done" /\ reqs'[r].pc = "done" /\ reqs'[r].status # 201)
                => sent' = sent
          /\ reqs[r].pc = "done" => reqs'[r] = reqs[r]
          /\ (orders[OrderId(r)].exists /\ ~orders'[OrderId(r)].exists)
                => /\ reqs[r].pc = "compensate" /\ reqs'[r].status = 400
                   /\ sent' = sent
                   /\ sent.event.type = "order:created" => sent.event.orderId # OrderId(r)

C24_Delivered ==
    \A r \in ReqIds :
        sent.event.type = "order:created" /\ sent.event.orderId = OrderId(r)
            => /\ reqs[r].pc = "done" /\ reqs[r].status = 201
               /\ orders[OrderId(r)].exists /\ orders[OrderId(r)].deducted

C24_EventOnlyOnSuccess == []C24_Delivered /\ [][C24_Step]_vars

C24_Witness ==
    \E r1, r2 \in ReqIds :
        /\ reqs[r1].status = 201
        /\ Len(reqs[r1].items) = 4
        /\ sent.event.orderId = OrderId(r1)
        /\ sent.event.itemsSummary = "tea, bite, slider..."
        /\ sent.event.branchId = "b1" /\ sent.event.branchName = "Main"
        /\ sent.to = {"w1"}
        /\ reqs[r2].status = 400 /\ reqs[r2].details = "branch lookup failed"
        /\ ~orders[OrderId(r2)].exists

(***************************************************************************)
(* C25.  An order status update performs no inventory side effects: every  *)
(* PATCH /api/orders/:id and PATCH /api/it/orders/:id request, answered    *)
(* 200 or not and whatever the old and the new status, leaves every        *)
(* inventory item as it was before the request.                            *)
(***************************************************************************)
OrderUpdateRoutes == {"PATCH /api/orders/:id", "PATCH /api/it/orders/:id"}

C25_Step ==
    resp'.route \in OrderUpdateRoutes => inventory' = inventory

C25_NoInventorySideEffect == [][C25_Step]_vars

C25_Witness ==
    /\ resp.route \in OrderUpdateRoutes
    /\ resp.status = 200
    /\ orders["1"].status = "Cancelled"
    /\ orders["1"].deducted
    /\ inventory = SeedInventory(NULL)

(***************************************************************************)
(* C26.  Inventory is deducted only for orders that survive: when a POST   *)
(* /api/orders request has ended with its order removed by the             *)
(* compensating delete, the request has left no deduction behind, so every *)
(* inventory quantity is the seeded one minus what the other requests have *)
(* deducted.                                                               *)
(***************************************************************************)
Compensated(r) ==
    /\ reqs[r].pc = "done"
    /\ reqs[r].status = 400
    /\ ~reqs[r].deleteFailed
    /\ ~orders[OrderId(r)].exists

C26_DeductedOnlyForSurvivors ==
    \A i \in ItemIds :
        inventory[i].quantity =
            SeedInventory("T1")[i].quantity
              - TotalApplied({r \in ReqIds : ~Compensated(r)}, i)

(***************************************************************************)
(* C27.  Unauthenticated user creation is limited to initial setup: a      *)
(* POST /api/users request without a session that arrives when the         *)
(* restaurant it names already has an admin account is answered 403 by its *)
(* next step and creates no user.                                          *)
(***************************************************************************)
Unauthenticated(c) == c.route = "POST /api/users" /\ ~sessions[c.sess].user

C27_Step ==
    \A q \in CallIds :
        /\ Unauthenticated(calls[q])
        /\ calls[q].afterAdmin
        /\ calls'[q] # calls[q]
        => /\ calls'[q] = NoCall
           /\ resp'.status = 403
           /\ resp'.ids = {q}
           /\ users' = users

C27_SetupOnlyOnce == [][C27_Step]_vars

(***************************************************************************)
(* C28.  PATCH /api/users/:id never changes the role or the restaurantId   *)
(* of any user, whatever keys the body carries, and the only user row it   *)
(* changes is the addressed one, when that user belongs to the caller's    *)
(* tenant and the request is answered 200.                                 *)
(***************************************************************************)
C28_Step ==
    resp'.route = "PATCH /api/users/:id" =>
        \A u \in UserIds :
            /\ users'[u].role = users[u].role
            /\ users'[u].restaurantId = users[u].restaurantId
            /\ users'[u].exists = users[u].exists
            /\ users'[u] # users[u] =>
                  /\ resp'.status = 200
                  /\ resp'.returned = {Row("user", u, sessions[resp'.sess].restaurantId)}
                  /\ users[u].restaurantId = sessions[resp'.sess].restaurantId

C28_RoleAndTenantFixed == [][C28_Step]_vars

C28_Witness ==
    /\ resp.route = "PATCH /api/users/:id"
    /\ resp.status = 200
    /\ users["u2"].username = "robert"
    /\ ~users["u2"].active
    /\ users["u2"].role = "employee"
    /\ users["u2"].restaurantId = "T1"
    /\ users["u3"] = SeedUsers(ADMIN_PERMISSIONS, ViewOnly)["u3"]

(***************************************************************************)
(* C29.  A ticket's status becomes in-progress, resolved or closed only    *)
(* through a request from an IT account.  Every step that gives a ticket   *)
(* one of those statuses is a PATCH /api/tickets/:id answered 200 on an IT *)
(* session; the same request from a logged-in client account is answered   *)
(* 403 and leaves every ticket unchanged; a ticket a client creates is     *)
(* open whatever status the body asks for.                                 *)
(***************************************************************************)
ClientSession(s) == sessions[s].user /\ sessions[s].accountType # "it"

C29_Step ==
    /\ \A t \in TicketIds :
          (tickets'[t].status \in restrictedStatuses
             /\ tickets'[t].status # tickets[t].status)
          => /\ resp'.route = "PATCH /api/tickets/:id"
             /\ resp'.status = 200
             /\ sessions[resp'.sess].accountType = "it"
    /\ \A s \in SessIds, id \in TicketIds, st \in restrictedStatuses :
          (ClientSession(s) /\ PatchTicket(s, id, st))
          => resp'.status = 403 /\ tickets' = tickets
    /\ \A s \in SessIds, st \in TicketStatuses :
          (ClientSession(s) /\ PostTicket(s, st))
          => \A t \in TicketIds :
                tickets'[t] # tickets[t] => tickets'[t].status = "open"

C29_RestrictedStatusesOnlyByIT == [][C29_Step]_vars

C29_Witness ==
    /\ resp.route = "PATCH /api/tickets/:id"
    /\ resp.status = 403
    /\ ClientSession(resp.sess)
    /\ tickets["t1"].exists
    /\ tickets["t1"].restaurantId = sessions[resp.sess].restaurantId
    /\ tickets["t1"].status = "in-progress"

(***************************************************************************)
(* C30.  The WebSocket listener registry holds only live connections: no   *)
(* member of wsClients has a socket that has closed or errored.            *)
(***************************************************************************)
C30_RegistryHoldsLiveSockets ==
    \A c \in wsClients : sockets[c.socket].state \in {"open", "closing"}

============================================================================
